---- MODULE Spec2Model ----
(***************************************************************************)
(* Verification model of the gonk API gateway: the circuit breaker         *)
(* (package resilience), the load balancer (package loadbalancer) and the  *)
(* per-route middleware pipeline (package server, internal/proxy).         *)
(*                                                                         *)
(* A critical section that the code runs under one mutex is one step of    *)
(* the model; code that releases a lock and takes another is split at the  *)
(* release, so that other goroutines interleave exactly where the code     *)
(* lets them.                                                              *)
(***************************************************************************)
EXTENDS Integers, Sequences, FiniteSets, TLC

(***************************************************************************)
(* Bounds of the model.                                                    *)
(***************************************************************************)
NumThreads == 2
MaxTime == 2
MaxMaxFailures == 3
MaxResetTimeout == 1
MaxHalfOpenMaxReqs == 2
NumLBThreads == 2
MaxUpstreams == 2
MaxWeight == 1
MaxLBRequests == 3
MaxPipeRequests == 2
MaxBurst == 2
MaxRate == 1
MaxTTL == 1
MaxRLRequests == 4
MaxReloads == 1
MaxPermissions == 2
MaxRoutes == 2
MaxLBRoutes == 2
MaxInFlight == 2
MaxScopes == 2
MaxPayload == 2
MaxStreamMsgs == 2
MaxCycles == 2
MaxHitRequests == 3
NumLockThreads == 3

Threads == 1..NumThreads

InSeq(x, seq) == \E k \in 1..Len(seq) : seq[k] = x

VARIABLES
    cb,         \* CircuitBreaker: state, failures, lastFailureTime, successCount
    cbCfg,      \* CircuitBreaker: maxFailures, resetTimeout, halfOpenMaxReqs
    now,        \* the wall clock read by time.Now / time.Since
    cbPc,       \* position of each request goroutine in CircuitBreaker.Middleware
    cbResp,     \* wrapped.statusCode of each goroutine's request in flight (0: none)
    cbObs       \* observer of the half-open window (history, not program state)

cbVars == <<cb, cbCfg, now, cbPc, cbResp, cbObs>>

VARIABLES
    lbCfg,          \* the route's upstreams (url, weight) and load_balancing.strategy
    lbUp,           \* LoadBalancer.upstreams: Healthy, Failures, ActiveConns, TotalRequests
    currentIndex,   \* LoadBalancer.currentIndex
    lbPc,           \* position of each request goroutine in handleLoadBalanced / handleWebSocket
    lbLoc,          \* locals of each request goroutine
    lbStarted,      \* requests started so far
    lbObs           \* observer: request failures recorded per upstream since its last success

lbVars == <<lbCfg, lbUp, currentIndex, lbPc, lbLoc, lbStarted, lbObs>>

(***************************************************************************)
(* Circuit breaker (resilience.CircuitBreaker).                            *)
(***************************************************************************)
StateClosed == "Closed"
StateOpen == "Open"
StateHalfOpen == "HalfOpen"

\* NewCircuitBreaker: state Closed, every counter at its zero value.  The
\* configuration is any triple of positive values (setDefaults replaces 0).
NewCircuitBreaker ==
    [state |-> StateClosed, failures |-> 0, lastFailureTime |-> 0, successCount |-> 0]

CBConfigs ==
    [maxFailures : 1..MaxMaxFailures,
     resetTimeout : 1..MaxResetTimeout,
     halfOpenMaxReqs : 1..MaxHalfOpenMaxReqs]

\* time.Since(cb.lastFailureTime) > cb.resetTimeout
resetElapsed(c, cfg, t) == t - c.lastFailureTime > cfg.resetTimeout

\* The switch of canExecute, evaluated under the read lock:
\* "admit" (return true), "reject" (return false) or "upgrade" (the Open
\* branch whose timeout elapsed: the read lock is dropped to take the write
\* lock).
canExecuteSwitch(c, cfg, t) ==
    CASE c.state = StateClosed -> "admit"
      [] c.state = StateOpen ->
            IF resetElapsed(c, cfg, t) THEN "upgrade" ELSE "reject"
      [] c.state = StateHalfOpen ->
            IF c.successCount < cfg.halfOpenMaxReqs THEN "admit" ELSE "reject"
      [] OTHER -> "reject"

\* The write-locked part of canExecute: cb.state = StateHalfOpen;
\* cb.successCount = 0 (unconditional, the state is not read again).
canExecuteSetHalfOpen(c) ==
    [c EXCEPT !.state = StateHalfOpen, !.successCount = 0]

\* recordResult(err), the whole function under the write lock.
recordResultMutThreshold(c, cfg, err, t) ==
    IF err
    THEN LET f == c.failures + 1 IN
         [c EXCEPT !.failures = f,
                   !.lastFailureTime = t,
                   !.state = IF c.state = StateHalfOpen \/ f > cfg.maxFailures
                             THEN StateOpen ELSE c.state]
    ELSE IF c.state = StateHalfOpen
         THEN LET s == c.successCount + 1 IN
              IF s >= cfg.halfOpenMaxReqs
              THEN [c EXCEPT !.successCount = s, !.state = StateClosed, !.failures = 0]
              ELSE [c EXCEPT !.successCount = s]
         ELSE IF c.state = StateClosed
              THEN [c EXCEPT !.failures = 0]
              ELSE c

recordResultMutIgnoresSuccess(c, cfg, err, t) ==
    IF err
    THEN LET f == c.failures + 1 IN
         [c EXCEPT !.failures = f,
                   !.lastFailureTime = t,
                   !.state = IF c.state = StateHalfOpen \/ f >= cfg.maxFailures
                             THEN StateOpen ELSE c.state]
    ELSE c

recordResult(c, cfg, err, t) ==
    IF err
    THEN LET f == c.failures + 1 IN
         [c EXCEPT !.failures = f,
                   !.lastFailureTime = t,
                   !.state = IF c.state = StateHalfOpen \/ f >= cfg.maxFailures
                             THEN StateOpen ELSE c.state]
    ELSE IF c.state = StateHalfOpen
         THEN LET s == c.successCount + 1 IN
              IF s >= cfg.halfOpenMaxReqs
              THEN [c EXCEPT !.successCount = s, !.state = StateClosed, !.failures = 0]
              ELSE [c EXCEPT !.successCount = s]
         ELSE IF c.state = StateClosed
              THEN [c EXCEPT !.failures = 0]
              ELSE c

\* Observer of the half-open window: the successes recorded since the breaker
\* last entered HalfOpen from another state, and the goroutines admitted in
\* the window that have not completed yet.
ObsAfter(o, c, c2, succ, adm) ==
    IF c2.state # StateHalfOpen
    THEN [successes |-> 0, admitted |-> {}]
    ELSE IF c.state # StateHalfOpen
         THEN [successes |-> 0, admitted |-> adm]
         ELSE [successes |-> o.successes + succ, admitted |-> o.admitted \cup adm]

InitCB(cfgs) ==
    /\ cb = NewCircuitBreaker
    /\ cbCfg \in cfgs
    /\ now = 0
    /\ cbPc = [t \in Threads |-> "idle"]
    /\ cbResp = [t \in Threads |-> 0]
    /\ cbObs = [successes |-> 0, admitted |-> {}]

\* CircuitBreaker.Middleware, first part: canExecute up to its return or up
\* to the RUnlock of the Open branch.
canExecute(t) ==
    /\ cbPc[t] = "idle"
    /\ LET d == canExecuteSwitch(cb, cbCfg, now) IN
       /\ cbPc' = [cbPc EXCEPT ![t] = CASE d = "admit" -> "inner"
                                        [] d = "upgrade" -> "upgrade"
                                        [] OTHER -> "rejected"]
       /\ cbObs' = IF d = "admit" /\ cb.state = StateHalfOpen
                   THEN [cbObs EXCEPT !.admitted = @ \cup {t}]
                   ELSE cbObs
    /\ UNCHANGED <<cb, cbCfg, now, cbResp>>

\* canExecute, Open branch: Lock; state = HalfOpen; successCount = 0; Unlock.
canExecuteUpgrade(t) ==
    /\ cbPc[t] = "upgrade"
    /\ cb' = canExecuteSetHalfOpen(cb)
    /\ cbPc' = [cbPc EXCEPT ![t] = "relock"]
    /\ cbObs' = ObsAfter(cbObs, cb, cb', 0, {})
    /\ UNCHANGED <<cbCfg, now, cbResp>>

\* canExecute, Open branch: RLock; return true (the deferred RUnlock follows).
canExecuteReturn(t) ==
    /\ cbPc[t] = "relock"
    /\ cbPc' = [cbPc EXCEPT ![t] = "inner"]
    /\ cbObs' = IF cb.state = StateHalfOpen
                THEN [cbObs EXCEPT !.admitted = @ \cup {t}]
                ELSE cbObs
    /\ UNCHANGED <<cb, cbCfg, now, cbResp>>

cbRejectMutRecords(t) ==
    /\ cbPc[t] = "rejected"
    /\ cbPc' = [cbPc EXCEPT ![t] = "idle"]
    /\ cb' = [cb EXCEPT !.failures = @ + 1, !.lastFailureTime = now]
    /\ UNCHANGED <<cbCfg, now, cbResp, cbObs>>

\* CircuitBreaker.Middleware, canExecute returned false: 503 and return.
cbReject(t) ==
    /\ cbPc[t] = "rejected"
    /\ cbPc' = [cbPc EXCEPT ![t] = "idle"]
    /\ UNCHANGED <<cb, cbCfg, now, cbResp, cbObs>>

\* CircuitBreaker.Middleware: next.ServeHTTP(wrapped, r) returns; the wrapped
\* writer holds the status the inner handler wrote.
Statuses == {200, 500}

cbInner(t) ==
    /\ cbPc[t] = "inner"
    /\ \E status \in Statuses : cbResp' = [cbResp EXCEPT ![t] = status]
    /\ cbPc' = [cbPc EXCEPT ![t] = "record"]
    /\ UNCHANGED <<cb, cbCfg, now, cbObs>>

\* CircuitBreaker.Middleware, last part: err is set iff statusCode >= 500;
\* recordResult(err).
cbRecord(t) ==
    /\ cbPc[t] = "record"
    /\ cb' = recordResult(cb, cbCfg, cbResp[t] >= 500, now)
    /\ cbObs' = LET o == [cbObs EXCEPT !.admitted = @ \ {t}] IN
                ObsAfter(o, cb, cb', IF cbResp[t] >= 500 THEN 0 ELSE 1, {})
    /\ cbPc' = [cbPc EXCEPT ![t] = "idle"]
    /\ cbResp' = [cbResp EXCEPT ![t] = 0]
    /\ UNCHANGED <<cbCfg, now>>

\* The clock advances.
Tick ==
    /\ now < MaxTime
    /\ now' = now + 1
    /\ UNCHANGED <<cb, cbCfg, cbPc, cbResp, cbObs>>

VARIABLES
    pipeCfg,    \* the route: which layers addRoute wraps, protocol, upstream set-up
    pipePc,     \* "idle", "layers" (going inwards) or "unwind" (handlers returning)
    pipeReq,    \* the request being served
    pipeRest,   \* the handlers of the route's chain not entered yet, outermost first
    pipeTrace,  \* the handlers entered by the request, in order
    pipeW,      \* what reached the client's ResponseWriter: WriteHeader calls, first status, its writer
    pipeUse,    \* what the request has used: limiter calls, breaker calls, cache lookups, upstream calls
    limiter,    \* the rate.Limiter of the client's key: tokens and time of last update
    cacheStore, \* Cache.store, by key: CreatedAt of the entry, -1 when absent
    cacheEntry, \* Cache.store, by key: StatusCode, Headers and Body of the entry
    pipeOut,    \* the header map and the body written to the client's ResponseWriter
    pipeCount   \* requests served so far

pipeVars == <<pipeCfg, pipePc, pipeReq, pipeRest, pipeTrace, pipeW, pipeUse,
              limiter, cacheStore, cacheEntry, pipeOut, pipeCount>>

VARIABLES
    srvManagers, \* whether cbManager.breakers / cacheManager.caches hold an instance for the route's name
    cacheCfg,    \* the CacheConfig the route's Cache was created with
    routeCB,     \* route.CircuitBreaker of the server's current configuration
    reloads      \* calls of Server.Reload so far

srvVars == <<srvManagers, cacheCfg, routeCB, reloads>>

VARIABLES
    azIn,   \* the request's method, the AuthContext and the route's RouteAuth
    azOut   \* what ValidateAuthorization and checkPermissions returned, once called

azVars == <<azIn, azOut>>

VARIABLES
    rtRoutes,   \* config.Routes: the declared routes (path pattern, methods), in order
    rtTable,    \* the routes registered with the mux router, in registration order
    rtReq,      \* the request: path and method
    rtOut       \* where the router sent the request, once it was dispatched

rtVars == <<rtRoutes, rtTable, rtReq, rtOut>>

VARIABLES
    lifeSrv,     \* the process: "running", "shutdown" (Start has returned) or "exited"
    lifeLBs,     \* every LoadBalancer NewHandler has created, oldest first
    lifeReloads  \* calls of Server.Reload so far

lifeVars == <<lifeSrv, lifeLBs, lifeReloads>>

VARIABLES
    wsIn,       \* the call of handleWebSocket: whether its ResponseWriter is an http.Hijacker
    wsPc,       \* the handler: "dial", "upgrade", "wait" (on errChan) or "done" (returned)
    wsStatus,   \* the HTTP status the handler answered with, 0 when none, 101 when upgraded
    wsConn,     \* clientConn and upstreamConn: "none", "open", "peerClosed" or "closed"
    wsInbox,    \* per connection: whether a message of the peer waits to be read
    wsPump,     \* the two pump goroutines: "none", "read", "write", "send" or "done"
    wsErr,      \* per pump: the error it is about to send on errChan
    wsErrChan,  \* errChan: the errors sent and not yet received
    wsLogged    \* whether the handler logged "WebSocket proxy error"

wsVars == <<wsIn, wsPc, wsStatus, wsConn, wsInbox, wsPump, wsErr, wsErrChan, wsLogged>>

VARIABLES
    scIn,   \* the scopes of the AuthContext and the required scopes of the route
    scOut   \* what matchScope gave for each pair and hasAllScopes for the lists, once called

scVars == <<scIn, scOut>>

VARIABLES
    jwtIn,  \* the request's token (header, alg, signing key, exp, roles) and the JWTConfig
    jwtOut  \* what ValidateJWT returned and what auth.Middleware answered, once called

jwtVars == <<jwtIn, jwtOut>>

VARIABLES
    trIn,   \* the TransformRule applied, which of the two transforms it is, r.RemoteAddr
    trHist  \* the header set before the first application and after each application

trVars == <<trIn, trHist>>

VARIABLES
    frIn,   \* the bytes the io.Reader holds
    frOut   \* what readGRPCFrame returned and what writeGRPCFrame wrote, once called

frVars == <<frIn, frOut>>

VARIABLES
    gsIn,       \* the call of handleStreamingGRPC: whether w is an http.Flusher, and how
                \* many frames the client and the upstream will send before they end
    gsPc,       \* the handler: "start", "wait" (on errChan) or "done" (returned)
    gsPump,     \* the two goroutines: "none", "read", "write", "report", "closing",
                \* "done" or "panicked"
    gsErr,      \* per goroutine: the value it is about to send on errChan
    gsErrChan,  \* errChan: the values sent and not yet received, and whether it is closed
    gsLeft,     \* frames the client's body and the upstream stream still hold
    gsObs       \* what happened: frames and trailers that reached the client before the
                \* handler returned, what the handler received, whether a pump failed

gsVars == <<gsIn, gsPc, gsPump, gsErr, gsErrChan, gsLeft, gsObs>>

VARIABLES
    selCfg,      \* a load balancer of its own: upstream list, weights, strategy
    selHealthy,  \* the upstreams getHealthyUpstreams returns, the same at every call
    selIndex,    \* its currentIndex
    selHist,     \* the upstreams its GetNextUpstream returned, in order
    selPanicked  \* a selection divided by a total weight of zero

selVars == <<selCfg, selHealthy, selIndex, selHist, selPanicked>>

VARIABLES
    lgEvent     \* the health transition the last step of the load balancer logged, if any

lgVars == <<lgEvent>>

VARIABLES
    kyIn,   \* the RateLimitConfig's "by" and two requests that passed auth.Middleware
    kyOut   \* what getKey returned for each of them, once called

kyVars == <<kyIn, kyOut>>

VARIABLES
    lkProg,     \* the lock calls of the operation each goroutine is running (<<>>: none)
    lkPc,       \* the index in lkProg of the goroutine's next lock call
    lkReaders,  \* per mutex: the goroutines holding it for reading
    lkWriter,   \* per mutex: the goroutine holding it for writing (0: none)
    lkPending   \* per mutex: the goroutine inside Lock waiting for the readers to leave

lkVars == <<lkProg, lkPc, lkReaders, lkWriter, lkPending>>

VARIABLES
    fwRoute,    \* a route: Protocol, len(Upstreams), LoadBalancing set, upstream reachable
    fwH,        \* <<what NewHandler returned for it>> (<<>> before the call)
    fwReq,      \* a request to the handler: WebSocket upgrade or not, its gRPC shape
    fwUse       \* the forwarder ServeHTTP handed the request to, and whether it was nil

fwVars == <<fwRoute, fwH, fwReq, fwUse>>

extVars == <<lifeVars, wsVars, scVars, jwtVars, trVars, frVars, gsVars, selVars, lgVars,
             kyVars,
             lkVars,
             fwVars>>

(***************************************************************************)
(* Load balancer (loadbalancer.LoadBalancer).                              *)
(***************************************************************************)
LBThreads == 1..NumLBThreads

Strategies == {"round-robin", "weighted", "least-connections", "ip-hash"}

\* Upstream lists that validate accepts: at least one upstream, every URL
\* non-empty and parseable, no weight below 0.  URLs are not required to be
\* distinct.  URLs are numbered in order of first appearance.
UpstreamURLLists ==
    {u \in UNION {[1..n -> 1..n] : n \in 1..MaxUpstreams} :
        /\ u[1] = 1
        /\ \A k \in 2..Len(u) : \E j \in 1..(k-1) : u[k] <= u[j] + 1}

\* weight 0 stands for an upstream whose weight is not configured.  Weights
\* are read by the weighted strategy only; they are left unset for the others.
LBConfigs ==
    {c \in UNION {[urls : {u}, weights : [1..Len(u) -> 0..MaxWeight], strategy : Strategies] :
                    u \in UpstreamURLLists} :
        c.strategy # "weighted" => \A k \in 1..Len(c.urls) : c.weights[k] = 0}

\* NewLoadBalancer: weight 0 becomes 100; every upstream starts healthy.
DefaultWeight == 100

UpstreamWeight(c, k) == IF c.weights[k] = 0 THEN DefaultWeight ELSE c.weights[k]

NewUpstreamState == [Healthy |-> TRUE, Failures |-> 0, ActiveConns |-> 0, TotalRequests |-> 0]

NumUpstreams == Len(lbCfg.urls)

\* The loop of ReleaseConnection / RecordFailure / RecordSuccess: the first
\* upstream whose URL string equals the given one (0: none).
FirstMatch(c, sel) ==
    IF \E k \in 1..Len(c.urls) : c.urls[k] = c.urls[sel]
    THEN CHOOSE k \in 1..Len(c.urls) :
            /\ c.urls[k] = c.urls[sel]
            /\ \A j \in 1..(k-1) : c.urls[j] # c.urls[sel]
    ELSE 0

\* hashString: h = h*31 + uint32(c) over the characters.  The addresses of
\* ClientHosts and ClientPorts are short enough for h to stay far below 2^32,
\* where the uint32 arithmetic of the code is exact.
RECURSIVE hashFrom(_, _, _)
hashFrom(str, k, h) ==
    IF k > Len(str) THEN h
    ELSE hashFrom(str, k + 1, h * 31 + str[k])

hashString(str) == hashFrom(str, 1, 0)

\* r.RemoteAddr of the requests, as character codes: host, ":" (58), port.
ClientHosts == {<<49>>, <<50>>}
ClientPorts == {<<55>>, <<56>>}

\* getHealthyUpstreams, the end: the upstreams read as healthy, or all of
\* them when none was.
healthyOrAllMutNoFallback(c, healthy) == healthy

healthyOrAll(c, healthy) ==
    IF Len(healthy) = 0 THEN [k \in 1..Len(c.urls) |-> k] ELSE healthy

\* roundRobin: upstreams[int(index) % len(upstreams)], index the incremented
\* currentIndex.
roundRobinMutStuck(list, index) == list[1]
roundRobin(list, index) == list[(index % Len(list)) + 1]

\* weighted: the first upstream at which the running sum of weights exceeds
\* index % totalWeight (the first of the list if there is none).
RECURSIVE sumWeights(_, _, _)
sumWeights(c, list, k) ==
    IF k = 0 THEN 0 ELSE sumWeights(c, list, k - 1) + UpstreamWeight(c, list[k])

weightedMutAtLeast(c, list, index) ==
    LET targetWeight == index % sumWeights(c, list, Len(list))
        hits == {k \in 1..Len(list) : sumWeights(c, list, k) >= targetWeight}
    IN  IF hits = {} THEN list[1]
        ELSE list[CHOOSE k \in hits : \A j \in hits : k <= j]
weighted(c, list, index) ==
    LET targetWeight == index % sumWeights(c, list, Len(list))
        hits == {k \in 1..Len(list) : sumWeights(c, list, k) > targetWeight}
    IN  IF hits = {} THEN list[1]
        ELSE list[CHOOSE k \in hits : \A j \in hits : k <= j]

\* leastConnections: the first upstream of the list with the fewest active
\* connections (strict <, so the earliest wins a tie).
MaxInt32 == 2147483647

leastConnections(ups, list) ==
    LET cands == {k \in 1..Len(list) :
                    /\ ups[list[k]].ActiveConns < MaxInt32
                    /\ \A j \in 1..Len(list) :
                          /\ ups[list[k]].ActiveConns <= ups[list[j]].ActiveConns
                          /\ (j < k => ups[list[k]].ActiveConns < ups[list[j]].ActiveConns)}
    IN  IF cands = {} THEN list[1] ELSE list[CHOOSE k \in cands : TRUE]

\* ipHash: upstreams[hashString(clientIP) % len(upstreams)].
ipHash(list, clientIP) == list[(hashString(clientIP) % Len(list)) + 1]

\* RecordFailure: "if failures >= 3".
marksUnhealthyMutTwo(failures) == failures >= 2

marksUnhealthy(failures) == failures >= 3

\* The load balancer's RWMutex: GetNextUpstream holds the read lock from its
\* first line to its return, RecordFailure / RecordSuccess hold the write
\* lock to their return.
lbReadHeld == \E t \in LBThreads : lbPc[t] \in {"scan", "select"}
lbWriteHeld == \E t \in LBThreads : lbPc[t] \in {"rf2", "rs2"}

NoLocals == [kind |-> "none", clientIP |-> <<>>, i |-> 0, healthy |-> <<>>, sel |-> 0]

InitLB(cfgs) ==
    /\ lbCfg \in cfgs
    /\ lbUp = [k \in 1..Len(lbCfg.urls) |-> NewUpstreamState]
    /\ currentIndex = 0
    /\ lbPc = [t \in LBThreads |-> "idle"]
    /\ lbLoc = [t \in LBThreads |-> NoLocals]
    /\ lbStarted = 0
    /\ lbObs = [k \in 1..Len(lbCfg.urls) |-> 0]

\* handleLoadBalanced ("http") or handleWebSocket ("ws") up to the RLock of
\* GetNextUpstream.  handleLoadBalanced passes the host of r.RemoteAddr,
\* handleWebSocket passes r.RemoteAddr whole.
GetNextUpstream(t) ==
    /\ lbPc[t] = "idle"
    /\ lbStarted < MaxLBRequests
    /\ ~lbWriteHeld
    /\ \E kind \in {"http", "ws"}, host \in ClientHosts, port \in ClientPorts :
        lbLoc' = [lbLoc EXCEPT ![t] =
                    [kind |-> kind,
                     clientIP |-> IF lbCfg.strategy # "ip-hash" THEN <<>>
                                  ELSE IF kind = "http" THEN host
                                  ELSE host \o <<58>> \o port,
                     i |-> 1, healthy |-> <<>>, sel |-> 0]]
    /\ lbPc' = [lbPc EXCEPT ![t] = "scan"]
    /\ lbStarted' = lbStarted + 1
    /\ UNCHANGED <<lbCfg, lbUp, currentIndex, lbObs>>

\* getHealthyUpstreams, one turn of the loop: read upstream.Healthy under the
\* upstream's read lock.
getHealthyUpstreams(t) ==
    /\ lbPc[t] = "scan"
    /\ LET i == lbLoc[t].i IN
        /\ lbLoc' = [lbLoc EXCEPT ![t].i = i + 1,
                                  ![t].healthy = IF lbUp[i].Healthy
                                                 THEN Append(@, i) ELSE @]
        /\ lbPc' = [lbPc EXCEPT ![t] = IF i = NumUpstreams THEN "select" ELSE "scan"]
    /\ UNCHANGED <<lbCfg, lbUp, currentIndex, lbStarted, lbObs>>

\* GetNextUpstream, from the end of getHealthyUpstreams to the return: the
\* strategy picks an upstream and increments its ActiveConns.
selectUpstream(t) ==
    /\ lbPc[t] = "select"
    /\ LET list == healthyOrAll(lbCfg, lbLoc[t].healthy)
           index == currentIndex + 1   \* atomic.AddUint32; at most MaxLBRequests
           usesIndex == lbCfg.strategy \in {"round-robin", "weighted"}
           sel == CASE lbCfg.strategy = "round-robin" -> roundRobin(list, index)
                    [] lbCfg.strategy = "weighted" -> weighted(lbCfg, list, index)
                    [] lbCfg.strategy = "least-connections" -> leastConnections(lbUp, list)
                    [] lbCfg.strategy = "ip-hash" -> ipHash(list, lbLoc[t].clientIP)
                    [] OTHER -> roundRobin(list, index)
       IN
        IF Len(list) = 0
        THEN \* "no healthy upstreams available": 503, nothing to release
             /\ lbPc' = [lbPc EXCEPT ![t] = "idle"]
             /\ lbLoc' = [lbLoc EXCEPT ![t] = NoLocals]
             /\ UNCHANGED <<lbUp, currentIndex>>
        ELSE /\ currentIndex' = IF usesIndex THEN index ELSE currentIndex
             /\ lbUp' = [lbUp EXCEPT ![sel].ActiveConns = @ + 1]
             /\ lbLoc' = [lbLoc EXCEPT ![t].sel = sel, ![t].clientIP = <<>>]
             /\ lbPc' = [lbPc EXCEPT ![t] = IF lbLoc[t].kind = "http"
                                            THEN "proxy" ELSE "release"]
    /\ UNCHANGED <<lbCfg, lbStarted, lbObs>>

\* handleLoadBalanced: the proxy answered with a status >= 500;
\* RecordFailure up to the increment of Failures, and to its return when the
\* count is below the threshold.
RecordFailure(t) ==
    /\ lbPc[t] = "proxy"
    /\ ~lbReadHeld /\ ~lbWriteHeld
    /\ LET j == FirstMatch(lbCfg, lbLoc[t].sel) IN
        IF j = 0
        THEN /\ lbPc' = [lbPc EXCEPT ![t] = "release"]
             /\ UNCHANGED <<lbUp, lbObs>>
        ELSE /\ lbUp' = [lbUp EXCEPT ![j].Failures = @ + 1]
             /\ lbObs' = [lbObs EXCEPT ![j] = @ + 1]
             /\ lbPc' = [lbPc EXCEPT ![t] = IF marksUnhealthy(lbUp[j].Failures + 1)
                                            THEN "rf2" ELSE "release"]
    /\ UNCHANGED <<lbCfg, currentIndex, lbLoc, lbStarted>>

\* RecordFailure, the threshold was reached: upstream.mutex.Lock;
\* Healthy = false; Unlock; return.
RecordFailureMark(t) ==
    /\ lbPc[t] = "rf2"
    /\ LET j == FirstMatch(lbCfg, lbLoc[t].sel) IN
        /\ lbUp' = [lbUp EXCEPT ![j].Healthy = FALSE]
    /\ lbPc' = [lbPc EXCEPT ![t] = "release"]
    /\ UNCHANGED <<lbCfg, currentIndex, lbLoc, lbStarted, lbObs>>

\* handleLoadBalanced: the proxy answered with a status below 500;
\* RecordSuccess up to the store of Failures = 0.
RecordSuccess(t) ==
    /\ lbPc[t] = "proxy"
    /\ ~lbReadHeld /\ ~lbWriteHeld
    /\ LET j == FirstMatch(lbCfg, lbLoc[t].sel) IN
        IF j = 0
        THEN /\ lbPc' = [lbPc EXCEPT ![t] = "release"]
             /\ UNCHANGED <<lbUp, lbObs>>
        ELSE /\ lbUp' = [lbUp EXCEPT ![j].Failures = 0]
             /\ lbObs' = [lbObs EXCEPT ![j] = 0]
             /\ lbPc' = [lbPc EXCEPT ![t] = "rs2"]
    /\ UNCHANGED <<lbCfg, currentIndex, lbLoc, lbStarted>>

\* RecordSuccess: upstream.mutex.Lock; Healthy = true; Unlock; return.
RecordSuccessMark(t) ==
    /\ lbPc[t] = "rs2"
    /\ LET j == FirstMatch(lbCfg, lbLoc[t].sel) IN
        /\ lbUp' = [lbUp EXCEPT ![j].Healthy = TRUE]
    /\ lbPc' = [lbPc EXCEPT ![t] = "release"]
    /\ UNCHANGED <<lbCfg, currentIndex, lbLoc, lbStarted, lbObs>>

\* The deferred ReleaseConnection of handleLoadBalanced and handleWebSocket:
\* the first upstream with the URL loses one ActiveConns and gains one
\* TotalRequests.
ReleaseConnection(t) ==
    /\ lbPc[t] = "release"
    /\ ~lbWriteHeld
    /\ LET j == FirstMatch(lbCfg, lbLoc[t].sel) IN
        lbUp' = IF j = 0 THEN lbUp
                ELSE [lbUp EXCEPT ![j].ActiveConns = @ - 1,
                                  ![j].TotalRequests = @ + 1]
    /\ lbPc' = [lbPc EXCEPT ![t] = "idle"]
    /\ lbLoc' = [lbLoc EXCEPT ![t] = NoLocals]
    /\ UNCHANGED <<lbCfg, currentIndex, lbStarted, lbObs>>

\* checkUpstreamHealth ended in markHealthy: Lock; Healthy = true;
\* atomic.StoreInt32(&upstream.Failures, 0); Unlock.  Healthy is read and
\* written under upstream.mutex only, so the new value becomes visible at the
\* Unlock, right after the store: the critical section is one step.
markHealthy(k) ==
    /\ lbUp' = [lbUp EXCEPT ![k].Healthy = TRUE, ![k].Failures = 0]
    /\ UNCHANGED <<lbCfg, currentIndex, lbPc, lbLoc, lbStarted, lbObs>>

\* checkUpstreamHealth ended in markUnhealthy: Lock; Healthy = false; Unlock.
markUnhealthy(k) ==
    /\ lbUp' = [lbUp EXCEPT ![k].Healthy = FALSE]
    /\ UNCHANGED <<lbCfg, currentIndex, lbPc, lbLoc, lbStarted, lbObs>>

(***************************************************************************)
(* The request pipeline of a route (Server.addRoute, the middleware and    *)
(* proxy.Handler).  One request is followed through the chain at a time.   *)
(***************************************************************************)
PipeConfigs ==
    {c \in [auth : {"none", "optional", "required"},
            rateLimit : {"off", "route", "global"},
            circuitBreaker : BOOLEAN,
            cache : BOOLEAN,
            transform : BOOLEAN,
            protocol : {"http", "grpc"},
            loadBalanced : BOOLEAN,
            burst : 0..MaxBurst,
            rps : 0..MaxRate,
            ttl : 0..MaxTTL] :
        /\ (c.rateLimit = "off") = (c.burst = 0)
        /\ (c.rateLimit = "off") = (c.rps = 0)
        /\ (~c.cache) = (c.ttl = 0)}

\* addRoute: the proxy handler is wrapped by Transform, then Cache, then the
\* circuit breaker, then RateLimit (the route's, else the global one), then
\* auth.Middleware.  The result lists the chain outermost first.
addRouteMutBreakerOutside(c) ==
    (IF c.auth # "none" THEN <<"Auth">> ELSE <<>>)
    \o (IF c.circuitBreaker THEN <<"CircuitBreaker">> ELSE <<>>)
    \o (IF c.rateLimit # "off" THEN <<"RateLimit">> ELSE <<>>)
    \o (IF c.cache THEN <<"Cache">> ELSE <<>>)
    \o (IF c.transform THEN <<"Transform">> ELSE <<>>)
    \o <<"Forwarder">>

addRoute(c) ==
    LET handler0 == <<"Forwarder">>
        handler1 == IF c.transform THEN <<"Transform">> \o handler0 ELSE handler0
        handler2 == IF c.cache THEN <<"Cache">> \o handler1 ELSE handler1
        handler3 == IF c.circuitBreaker THEN <<"CircuitBreaker">> \o handler2 ELSE handler2
        handler4 == IF c.rateLimit # "off" THEN <<"RateLimit">> \o handler3 ELSE handler3
    IN  IF c.auth # "none" THEN <<"Auth">> \o handler4 ELSE handler4

\* setupMiddleware: every request reaches the route's chain through
\* RequestID, Recovery and Logging; Logging hands on its own responseWriter.
RouterWrappers == <<"Logging">>

\* w.(http.Flusher) in handleStreamingGRPC: the wrappers of the middleware
\* embed http.ResponseWriter and declare WriteHeader and Write only, so a
\* wrapped writer is not a Flusher.
isFlusher(wrappers) == Len(wrappers) = 0

Credentials == {"none", "denied", "ok"}
Methods == {"GET", "HEAD", "POST"}
GRPCRequests == {"http1", "badContentType", "badPath", "unary", "streaming"}

\* Cache.shouldCache with the default methods of setDefaults.
CacheMethods == {"GET", "HEAD"}

shouldCacheMutAnyMethod(method) == TRUE

shouldCache(method) == method \in CacheMethods

\* Entry.IsExpired / Cache.get.
cacheGetMutNoExpiry(store, ttl, t) == store >= 0

cacheGet(store, ttl, t) == store >= 0 /\ ~(t - store > ttl)

\* Cache.generateKey hashes the method and the URL; requests here share one
\* URL, so the method stands for the key.
generateKey(req) == req.method
CacheKeys == Methods

\* The keys of the response's header map that the handlers set; "" is an
\* absent key.
HeaderKeys == {"X-Request-ID", "Content-Type", "WWW-Authenticate", "Upstream",
               "X-Transform", "X-Cache"}
NoHeaders == [k \in HeaderKeys |-> ""]
Bodies == {"a", "b"}
NoOutput == [headers |-> NoHeaders, body |-> ""]
NoEntry == [StatusCode |-> 0, Headers |-> NoHeaders, Body |-> ""]

\* w.Header().Set(k, v) for every k of kv.
SetHeaders(h, kv) == [k \in HeaderKeys |-> IF k \in DOMAIN kv THEN kv[k] ELSE h[k]]

\* Cache.serveFromCache: the entry's headers are copied over the writer's,
\* X-Cache is set, the entry's status and body are written.
serveFromCache(h, entry) ==
    [headers |-> SetHeaders([k \in HeaderKeys |->
                                IF entry.Headers[k] # "" THEN entry.Headers[k] ELSE h[k]],
                            "X-Cache" :> "HIT"),
     body |-> entry.Body]

\* transformResponseWriter.WriteHeader: the route's response headers are added
\* before the status goes to the writer inside.
transformHeaders(h, trace) ==
    IF InSeq("Transform", trace) THEN SetHeaders(h, "X-Transform" :> "on") ELSE h

\* The JSON error answers of the middleware and of the proxy's ErrorHandler.
errorOutput(h) == [headers |-> SetHeaders(h, "Content-Type" :> "application/json"),
                   body |-> "error"]

\* rate.Limiter.Allow at time t: the tokens refill at rps per time unit up to
\* burst, then one is taken if there is one.
limiterAdvance(l, rps, burst, t) ==
    LET filled == l.tokens + (t - l.last) * rps
    IN  [tokens |-> IF filled > burst THEN burst ELSE filled, last |-> t]

NoWrite == [writes |-> 0, status |-> 0, by |-> "none", last |-> 0]
NoUse == [limiterCalls |-> 0, tokens |-> 0, breakerCalls |-> 0, recorded |-> 0,
          cacheLookups |-> 0, upstreamCalls |-> 0, panicked |-> FALSE,
          transportFailed |-> FALSE, failureRecorded |-> FALSE]
NoRequest == [cred |-> "none", method |-> "GET", grpc |-> "none"]

\* ResponseWriter.WriteHeader(code) called by handler `by`.
WriteHeader(w, code, by) ==
    [writes |-> w.writes + 1,
     status |-> IF w.writes = 0 THEN code ELSE w.status,
     by |-> IF w.writes = 0 THEN by ELSE w.by,
     last |-> code]

InitPipe(cfgs) ==
    /\ pipeCfg \in cfgs
    /\ pipePc = "idle"
    /\ pipeReq = NoRequest
    /\ pipeRest = <<>>
    /\ pipeTrace = <<>>
    /\ pipeW = NoWrite
    /\ pipeUse = NoUse
    /\ limiter = [tokens |-> pipeCfg.burst, last |-> 0]
    /\ cacheStore = [k \in CacheKeys |-> -1]
    /\ cacheEntry = [k \in CacheKeys |-> NoEntry]
    /\ pipeOut = NoOutput
    /\ pipeCount = 0

\* A request is routed to the route's handler.
pipeStartUpTo(max) ==
    /\ pipePc = "idle"
    /\ pipeCount < max
    /\ \E cred \in Credentials, method \in Methods, g \in GRPCRequests :
        /\ pipeCfg.auth # "required" => cred = "ok"
        /\ pipeCfg.protocol # "grpc" => g = "unary"
        /\ pipeCfg.protocol = "grpc" => method = "POST"
        /\ pipeReq' = [cred |-> cred, method |-> method,
                       grpc |-> IF pipeCfg.protocol = "grpc" THEN g ELSE "none"]
    /\ pipePc' = "layers"
    /\ pipeRest' = addRoute(pipeCfg)
    /\ pipeTrace' = <<>>
    /\ pipeW' = NoWrite
    /\ pipeUse' = NoUse
    /\ pipeOut' = [NoOutput EXCEPT !.headers["X-Request-ID"] = ToString(pipeCount + 1)]
    /\ UNCHANGED <<pipeCfg, limiter, cacheStore, cacheEntry, pipeCount, cb, now>>

pipeStart == pipeStartUpTo(MaxPipeRequests)

Entering(layer) == pipePc = "layers" /\ pipeRest # <<>> /\ Head(pipeRest) = layer

\* The handler calls next.ServeHTTP.
PassOn ==
    /\ pipeRest' = Tail(pipeRest)
    /\ pipePc' = "layers"
    /\ pipeW' = pipeW
    /\ pipeOut' = pipeOut

\* The handler writes the response itself and returns.
Respond(code, by) ==
    /\ pipeRest' = pipeRest
    /\ pipePc' = "unwind"
    /\ pipeW' = WriteHeader(pipeW, code, by)

\* The header map and the body the handler writes.
Emit(out) == pipeOut' = out

\* auth.Middleware: 401 when authentication fails, 403 when authorization
\* fails, next otherwise (and when the route does not require auth).
authOutcomeMutForbiddenPasses(auth, cred) ==
    IF auth # "required" \/ cred # "none" THEN 0 ELSE 401

\* The status auth.Middleware answers with, 0 when it calls next.
authOutcome(auth, cred) ==
    IF auth # "required" \/ cred = "ok" THEN 0
    ELSE IF cred = "none" THEN 401
    ELSE 403

pipeAuth ==
    /\ Entering("Auth")
    /\ pipeTrace' = Append(pipeTrace, "Auth")
    /\ LET code == authOutcome(pipeCfg.auth, pipeReq.cred) IN
        IF code = 0 THEN PassOn
        ELSE IF code = 401
        THEN /\ Respond(401, "Auth")
             /\ Emit(errorOutput(SetHeaders(pipeOut.headers, "WWW-Authenticate" :> "Bearer")))
        ELSE /\ Respond(403, "Auth")
             /\ Emit(errorOutput(pipeOut.headers))
    /\ UNCHANGED <<pipeCfg, pipeReq, pipeUse, limiter, cacheStore, cacheEntry, pipeCount, cb, now>>

\* middleware.RateLimit: 429 when limiter.Allow() is false.
pipeRateLimit ==
    /\ Entering("RateLimit")
    /\ pipeTrace' = Append(pipeTrace, "RateLimit")
    /\ LET l == limiterAdvance(limiter, pipeCfg.rps, pipeCfg.burst, now) IN
        IF l.tokens >= 1
        THEN /\ limiter' = [l EXCEPT !.tokens = @ - 1]
             /\ pipeUse' = [pipeUse EXCEPT !.limiterCalls = @ + 1, !.tokens = @ + 1]
             /\ PassOn
        ELSE /\ limiter' = l
             /\ pipeUse' = [pipeUse EXCEPT !.limiterCalls = @ + 1]
             /\ Respond(429, "RateLimit")
             /\ Emit(errorOutput(pipeOut.headers))
    /\ UNCHANGED <<pipeCfg, pipeReq, cacheStore, cacheEntry, pipeCount, cb, now>>

\* CircuitBreaker.Middleware up to next.ServeHTTP: 503 when canExecute is
\* false.  With one request in flight canExecute runs without interference.
pipeCircuitBreaker ==
    /\ Entering("CircuitBreaker")
    /\ pipeTrace' = Append(pipeTrace, "CircuitBreaker")
    /\ pipeUse' = [pipeUse EXCEPT !.breakerCalls = @ + 1]
    /\ LET d == canExecuteSwitch(cb, cbCfg, now) IN
        /\ cb' = IF d = "upgrade" THEN canExecuteSetHalfOpen(cb) ELSE cb
        /\ IF d = "reject"
           THEN Respond(503, "CircuitBreaker") /\ Emit(errorOutput(pipeOut.headers))
           ELSE PassOn
    /\ UNCHANGED <<pipeCfg, pipeReq, limiter, cacheStore, cacheEntry, pipeCount, now>>

\* Cache.Middleware up to next.ServeHTTP: a stored, unexpired entry is served
\* for a cacheable method.
pipeCache ==
    /\ Entering("Cache")
    /\ pipeTrace' = Append(pipeTrace, "Cache")
    /\ IF ~shouldCache(pipeReq.method)
       THEN PassOn /\ pipeUse' = pipeUse
       ELSE /\ pipeUse' = [pipeUse EXCEPT !.cacheLookups = @ + 1]
            /\ LET key == generateKey(pipeReq) IN
                IF cacheGet(cacheStore[key], cacheCfg.ttl, now)
                THEN /\ Respond(cacheEntry[key].StatusCode, "Cache")
                     /\ Emit(serveFromCache(pipeOut.headers, cacheEntry[key]))
                ELSE PassOn
    /\ UNCHANGED <<pipeCfg, pipeReq, limiter, cacheStore, cacheEntry, pipeCount, cb, now>>

\* middleware.Transform: rewrites headers and calls next.
pipeTransform ==
    /\ Entering("Transform")
    /\ pipeTrace' = Append(pipeTrace, "Transform")
    /\ PassOn
    /\ UNCHANGED <<pipeCfg, pipeReq, pipeUse, limiter, cacheStore, cacheEntry, pipeCount, cb, now>>

\* The writers that wrap the client's ResponseWriter when the proxy handler
\* is called.
forwarderWrappers(trace, method) ==
    RouterWrappers
    \o (IF InSeq("CircuitBreaker", trace) THEN <<"circuitBreakerResponseWriter">> ELSE <<>>)
    \o (IF InSeq("Cache", trace) /\ shouldCache(method) THEN <<"responseRecorder">> ELSE <<>>)
    \o (IF InSeq("Transform", trace) THEN <<"transformResponseWriter">> ELSE <<>>)

\* The handler panics; Recovery will see it when the chain unwinds.
Panic(w) ==
    /\ pipeRest' = pipeRest
    /\ pipePc' = "unwind"
    /\ pipeW' = w

\* What the upstream's answer puts on the writer: its own headers, those of
\* transformResponseWriter, and its body (none for HEAD).
upstreamOutput(h, trace, method, body) ==
    [headers |-> transformHeaders(SetHeaders(h, "Upstream" :> "yes"), trace),
     body |-> IF method = "HEAD" THEN "" ELSE body]

\* writeGRPCResponse / writeGRPCError: Content-Type application/grpc and the
\* framed message.
grpcOutput(h, trace, body) ==
    [headers |-> transformHeaders(SetHeaders(h, "Content-Type" :> "application/grpc"), trace),
     body |-> body]

\* httpProxy.ServeHTTP / handleLoadBalanced: the reverse proxy relays the
\* upstream's status (200 or 500 here), its ErrorHandler answers 502 when the
\* upstream cannot be reached, and it panics with http.ErrAbortHandler when
\* the upstream's body breaks off after the status has been relayed.
ProxyOutcomes == {"200", "500", "unreachable", "bodyAborted"}

forwardHTTP ==
    \E out \in ProxyOutcomes, body \in Bodies :
        /\ pipeUse' = [pipeUse EXCEPT !.upstreamCalls = @ + 1,
                                      !.panicked = (out = "bodyAborted"),
                                      !.transportFailed = (out \in {"unreachable", "bodyAborted"})]
        /\ CASE out = "200" ->
                    /\ Respond(200, "Forwarder")
                    /\ Emit(upstreamOutput(pipeOut.headers, pipeTrace, pipeReq.method, body))
             [] out = "500" ->
                    /\ Respond(500, "Forwarder")
                    /\ Emit(upstreamOutput(pipeOut.headers, pipeTrace, pipeReq.method, body))
             [] out = "unreachable" ->
                    /\ body = "a"
                    /\ Respond(502, "Forwarder")
                    /\ Emit(errorOutput(transformHeaders(pipeOut.headers, pipeTrace)))
             [] out = "bodyAborted" ->
                    /\ body = "a"
                    /\ Panic(WriteHeader(pipeW, 200, "Forwarder"))
                    /\ Emit(upstreamOutput(pipeOut.headers, pipeTrace, "HEAD", body))

\* handleStreamingGRPC for a writer that is a Flusher: an error of NewStream
\* or stream.Header is answered by writeGRPCError; otherwise the headers are
\* written with WriteHeader(200), and an error a pump reports afterwards is
\* answered by writeGRPCError, which calls WriteHeader(200) again.
StreamOutcomes == {"newStreamError", "headerError", "completed", "streamError"}

forwardStreamingGRPC ==
    IF ~isFlusher(forwarderWrappers(pipeTrace, pipeReq.method))
    THEN /\ pipeUse' = pipeUse
         /\ Respond(200, "Forwarder")
         /\ Emit(grpcOutput(pipeOut.headers, pipeTrace, "error"))
    ELSE \E out \in StreamOutcomes :
            /\ pipeUse' = [pipeUse EXCEPT !.upstreamCalls = @ + 1]
            /\ pipeRest' = pipeRest
            /\ pipePc' = "unwind"
            /\ Emit(grpcOutput(pipeOut.headers, pipeTrace, "error"))
            /\ pipeW' = IF out = "streamError"
                        THEN WriteHeader(WriteHeader(pipeW, 200, "Forwarder"), 200, "Forwarder")
                        ELSE WriteHeader(pipeW, 200, "Forwarder")

\* conn.Invoke in handleUnaryGRPC: a response, an error status of the upstream,
\* or a transport failure (codes.Unavailable, DeadlineExceeded).
UnaryOutcomes == {"ok", "statusError", "unavailable"}

\* handleGRPC: 505, 415 and 400 for malformed requests; h.grpcProxy is nil
\* when NewHandler built a load balancer, and getConnection then panics on
\* the nil receiver; handleUnaryGRPC writes the status once on both of its
\* ways out.
forwardGRPC ==
    LET refused == [headers |-> transformHeaders(SetHeaders(pipeOut.headers,
                                                    "Content-Type" :> "text/plain"), pipeTrace),
                    body |-> "error"]
    IN
    CASE pipeReq.grpc = "http1" ->
            Respond(505, "Forwarder") /\ Emit(refused) /\ pipeUse' = pipeUse
      [] pipeReq.grpc = "badContentType" ->
            Respond(415, "Forwarder") /\ Emit(refused) /\ pipeUse' = pipeUse
      [] pipeReq.grpc = "badPath" ->
            Respond(400, "Forwarder") /\ Emit(refused) /\ pipeUse' = pipeUse
      [] OTHER ->
            IF pipeCfg.loadBalanced
            THEN /\ Panic(pipeW)
                 /\ pipeUse' = [pipeUse EXCEPT !.panicked = TRUE]
                 /\ pipeOut' = pipeOut
            ELSE IF pipeReq.grpc = "unary"
            THEN \E out \in UnaryOutcomes, body \in Bodies :
                    /\ out # "ok" => body = "a"
                    /\ pipeUse' = [pipeUse EXCEPT !.upstreamCalls = @ + 1,
                                                  !.transportFailed = (out = "unavailable")]
                    /\ Respond(200, "Forwarder")
                    /\ Emit(grpcOutput(pipeOut.headers, pipeTrace,
                                       IF out = "ok" THEN body ELSE "error"))
            ELSE forwardStreamingGRPC

\* Handler.ServeHTTP.
pipeForward ==
    /\ Entering("Forwarder")
    /\ pipeTrace' = Append(pipeTrace, "Forwarder")
    /\ IF pipeCfg.protocol = "grpc" THEN forwardGRPC ELSE forwardHTTP
    /\ UNCHANGED <<pipeCfg, pipeReq, limiter, cacheStore, cacheEntry, pipeCount, cb, now>>

\* The handlers return, innermost first.  Cache.Middleware stores the
\* response when its recorder saw status 200; CircuitBreaker.Middleware calls
\* recordResult with an error when its wrapper saw a status >= 500; neither
\* runs when the handler inside panicked, and Recovery then writes 500.
pipeReturn ==
    /\ pipePc = "unwind"
    /\ LET seen == IF pipeW.last = 0 THEN 200 ELSE pipeW.last
           recorded == /\ ~pipeUse.panicked
                       /\ InSeq("CircuitBreaker", pipeTrace)
                       /\ pipeW.by # "CircuitBreaker"
           stored == /\ ~pipeUse.panicked
                     /\ InSeq("Cache", pipeTrace)
                     /\ shouldCache(pipeReq.method)
                     /\ pipeW.by # "Cache"
                     /\ seen = 200
           key == generateKey(pipeReq)
           recorder == [StatusCode |-> seen,
                        Headers |-> IF pipeW.last = 0 THEN NoHeaders ELSE pipeOut.headers,
                        Body |-> pipeOut.body]
       IN
        /\ cb' = IF recorded THEN recordResult(cb, cbCfg, seen >= 500, now) ELSE cb
        /\ cacheStore' = IF stored THEN [cacheStore EXCEPT ![key] = now] ELSE cacheStore
        /\ cacheEntry' = IF stored THEN [cacheEntry EXCEPT ![key] = recorder] ELSE cacheEntry
        /\ pipeUse' = [pipeUse EXCEPT !.recorded = IF recorded THEN 1 ELSE 0,
                                      !.failureRecorded = recorded /\ seen >= 500]
        /\ pipeW' = IF pipeUse.panicked THEN WriteHeader(pipeW, 500, "Recovery") ELSE pipeW
    /\ pipePc' = "idle"
    /\ pipeCount' = pipeCount + 1
    /\ UNCHANGED <<pipeCfg, pipeReq, pipeRest, pipeTrace, pipeOut, limiter, now>>

(***************************************************************************)
(* The rate limiters (middleware.RateLimit, getLimiter): one process-wide  *)
(* map of rate.Limiter objects, used by the RateLimit handler of every     *)
(* route and by the global one, from concurrent request goroutines.        *)
(***************************************************************************)
VARIABLES
    rlCfg,      \* scope -> the RateLimitConfig (rps, burst) addRoute gave to its RateLimit handler
    rlHeap,     \* the rate.Limiter objects created so far: rps, burst, tokens, last
    rlLimiters, \* limiterInstance.limiters: key -> index into rlHeap, 0 when absent
    rlPc,       \* goroutine -> "idle", "create" (saw !exists) or "allow" (holds a limiter)
    rlLoc,      \* goroutine -> scope, key and limiter of its request
    rlAdmitted, \* scope -> key -> time -> requests passed on to next
    rlDenied,   \* scope -> key -> requests answered 429
    rlCount     \* requests started so far

rlVars == <<rlCfg, rlHeap, rlLimiters, rlPc, rlLoc, rlAdmitted, rlDenied, rlCount>>

\* addRoute: the route's own rate limit when enabled, else the global one.
Scopes == {"global", "route"}
\* getKey: the client's IP or X-Client-ID.
ClientKeys == {"10.0.0.1", "10.0.0.2"}

RateLimitConfigs == [rps : 1..MaxRate, burst : 1..MaxBurst]
RLConfigs == [Scopes -> RateLimitConfigs]

\* rate.NewLimiter(rate.Limit(rps), burst): the bucket starts full.
NewLimiter(rps, burst, t) == [rps |-> rps, burst |-> burst, tokens |-> burst, last |-> t]

NoRLLocals == [scope |-> "global", key |-> "10.0.0.1", ref |-> 0]

InitRL(cfgs) ==
    /\ rlCfg \in cfgs
    /\ rlHeap = <<>>
    /\ rlLimiters = [k \in ClientKeys |-> 0]
    /\ rlPc = [t \in Threads |-> "idle"]
    /\ rlLoc = [t \in Threads |-> NoRLLocals]
    /\ rlAdmitted = [s \in Scopes |-> [k \in ClientKeys |-> [u \in 0..MaxTime |-> 0]]]
    /\ rlDenied = [s \in Scopes |-> [k \in ClientKeys |-> 0]]
    /\ rlCount = 0

\* RateLimit up to the first critical section of getLimiter: RLock, look the
\* key up, RUnlock.
RateLimit(t) ==
    /\ rlPc[t] = "idle"
    /\ rlCount < MaxRLRequests
    /\ \E s \in Scopes, k \in ClientKeys :
        /\ rlLoc' = [rlLoc EXCEPT ![t] = [scope |-> s, key |-> k, ref |-> rlLimiters[k]]]
        /\ rlPc' = [rlPc EXCEPT ![t] = IF rlLimiters[k] = 0 THEN "create" ELSE "allow"]
    /\ rlCount' = rlCount + 1
    /\ UNCHANGED <<rlCfg, rlHeap, rlLimiters, rlAdmitted, rlDenied>>

\* getLimiter after !exists: Lock, create a limiter from the caller's rps and
\* burst, store it under the key, Unlock.  The key is not looked up again.
getLimiter(t) ==
    /\ rlPc[t] = "create"
    /\ LET c == rlCfg[rlLoc[t].scope] IN
        rlHeap' = Append(rlHeap, NewLimiter(c.rps, c.burst, now))
    /\ rlLimiters' = [rlLimiters EXCEPT ![rlLoc[t].key] = Len(rlHeap) + 1]
    /\ rlLoc' = [rlLoc EXCEPT ![t].ref = Len(rlHeap) + 1]
    /\ rlPc' = [rlPc EXCEPT ![t] = "allow"]
    /\ UNCHANGED <<rlCfg, rlAdmitted, rlDenied, rlCount>>

\* limiter.Allow(): next.ServeHTTP when it took a token, 429 otherwise.
Allow(t) ==
    /\ rlPc[t] = "allow"
    /\ LET i == rlLoc[t].ref
           s == rlLoc[t].scope
           k == rlLoc[t].key
           l == limiterAdvance(rlHeap[i], rlHeap[i].rps, rlHeap[i].burst, now)
       IN
        IF l.tokens >= 1
        THEN /\ rlHeap' = [rlHeap EXCEPT ![i].tokens = l.tokens - 1, ![i].last = l.last]
             /\ rlAdmitted' = [rlAdmitted EXCEPT ![s][k][now] = @ + 1]
             /\ rlDenied' = rlDenied
        ELSE /\ rlHeap' = [rlHeap EXCEPT ![i].tokens = l.tokens, ![i].last = l.last]
             /\ rlAdmitted' = rlAdmitted
             /\ rlDenied' = [rlDenied EXCEPT ![s][k] = @ + 1]
    /\ rlPc' = [rlPc EXCEPT ![t] = "idle"]
    /\ rlLoc' = [rlLoc EXCEPT ![t] = NoRLLocals]
    /\ UNCHANGED <<rlCfg, rlLimiters, rlCount>>

(***************************************************************************)
(* Server.New and Server.Reload: the route's chain is rebuilt by addRoute, *)
(* which asks cbManager and cacheManager for the instances of the route's  *)
(* name.                                                                   *)
(***************************************************************************)
\* Server.New: addRoute has created the breaker and the cache of the route
\* when its configuration enables them.
InitSrv ==
    /\ srvManagers = [breakers |-> pipeCfg.circuitBreaker, caches |-> pipeCfg.cache]
    /\ cacheCfg = [ttl |-> pipeCfg.ttl]
    /\ routeCB = cbCfg
    /\ reloads = 0

\* The configurations of the route that a reload moves between: the route
\* keeps its name and its upstream, its breaker and cache settings change.
ReloadConfigs ==
    {c \in PipeConfigs :
        /\ c.auth = "none" /\ c.rateLimit = "off" /\ ~c.transform
        /\ c.protocol = "http" /\ ~c.loadBalanced}

\* Server.Reload between two requests: s.config = newConfig, a new router,
\* setupRoutes.  CircuitBreakerManager.GetOrCreate and Manager.GetOrCreate
\* return the instance registered under the route's name when there is one,
\* and create one from the new configuration otherwise.
Reload ==
    /\ pipePc = "idle"
    /\ reloads < MaxReloads
    /\ \E c \in ReloadConfigs, b \in CBConfigs :
        /\ pipeCfg' = c
        /\ routeCB' = b
        /\ IF c.circuitBreaker /\ ~srvManagers.breakers
           THEN cb' = NewCircuitBreaker /\ cbCfg' = b
           ELSE UNCHANGED <<cb, cbCfg>>
        /\ IF c.cache /\ ~srvManagers.caches
           THEN /\ cacheStore' = [k \in CacheKeys |-> -1]
                /\ cacheEntry' = [k \in CacheKeys |-> NoEntry]
                /\ cacheCfg' = [ttl |-> c.ttl]
           ELSE UNCHANGED <<cacheStore, cacheEntry, cacheCfg>>
        /\ srvManagers' = [breakers |-> srvManagers.breakers \/ c.circuitBreaker,
                           caches |-> srvManagers.caches \/ c.cache]
    /\ reloads' = reloads + 1
    /\ UNCHANGED <<pipePc, pipeReq, pipeRest, pipeTrace, pipeW, pipeUse, pipeOut,
                   limiter, pipeCount, now, cbPc, cbResp, cbObs, lbVars, rlVars, azVars,
                   rtVars, extVars>>

(***************************************************************************)
(* Authorization (auth.ValidateAuthorization, checkPermissions): a pure    *)
(* function of the request's method, the AuthContext and the RouteAuth.    *)
(***************************************************************************)
\* strings.EqualFold on the names used here.
Fold(str) ==
    CASE str = "Technician" -> "technician"
      [] str = "GET" -> "get"
      [] str = "POST" -> "post"
      [] OTHER -> str

EqualFold(a, b) == Fold(a) = Fold(b)

\* A scope is the sequence of its pieces: names without ":" or "*", and the
\* characters ":" and "*" themselves, so "read:*" is <<"read", ":", "*">>.
HasPrefix(str, prefix) == Len(prefix) <= Len(str) /\ SubSeq(str, 1, Len(prefix)) = prefix
HasSuffix(str, suffix) ==
    Len(suffix) <= Len(str) /\ SubSeq(str, Len(str) - Len(suffix) + 1, Len(str)) = suffix
TrimSuffix(str, suffix) ==
    IF HasSuffix(str, suffix) THEN SubSeq(str, 1, Len(str) - Len(suffix)) ELSE str

matchScopeMutNoColon(userScope, requiredScope) ==
    IF userScope = requiredScope THEN TRUE
    ELSE IF HasSuffix(userScope, <<":", "*">>)
         THEN HasPrefix(requiredScope, TrimSuffix(userScope, <<":", "*">>))
    ELSE IF HasSuffix(requiredScope, <<":", "*">>)
         THEN HasPrefix(userScope, TrimSuffix(requiredScope, <<":", "*">>))
    ELSE FALSE

matchScope(userScope, requiredScope) ==
    IF userScope = requiredScope THEN TRUE
    ELSE IF HasSuffix(userScope, <<":", "*">>)
         THEN HasPrefix(requiredScope, TrimSuffix(userScope, <<":", "*">>) \o <<":">>)
    ELSE IF HasSuffix(requiredScope, <<":", "*">>)
         THEN HasPrefix(userScope, TrimSuffix(requiredScope, <<":", "*">>) \o <<":">>)
    ELSE FALSE

hasAllScopes(userScopes, requiredScopes) ==
    \A i \in 1..Len(requiredScopes) :
        \E j \in 1..Len(userScopes) : matchScope(userScopes[j], requiredScopes[i])

hasRole(userRoles, role) == \E j \in 1..Len(userRoles) : EqualFold(userRoles[j], role)

hasAnyRole(userRoles, requiredRoles) ==
    \E i \in 1..Len(requiredRoles) : hasRole(userRoles, requiredRoles[i])

hasMethod(allowedMethods, method) ==
    \E i \in 1..Len(allowedMethods) : EqualFold(allowedMethods[i], method)

\* checkPermissions, from the i-th permission on: a permission matched by
\* role or by identity type whose methods hold the request's method returns
\* true unless its scopes are not satisfied, in which case the loop continues.
RECURSIVE checkPermissionsMutStopsAtScopes(_, _, _, _)
checkPermissionsMutStopsAtScopes(i, method, authCtx, permissions) ==
    IF i > Len(permissions) THEN FALSE
    ELSE LET perm == permissions[i]
             scopesOK == Len(perm.Scopes) = 0 \/ hasAllScopes(authCtx.Scopes, perm.Scopes)
             byRole == /\ perm.Role # ""
                       /\ hasRole(authCtx.Roles, perm.Role)
                       /\ hasMethod(perm.Methods, method)
             byIdentity == /\ perm.IdentityType # ""
                           /\ perm.IdentityType = authCtx.IdentityType
                           /\ hasMethod(perm.Methods, method)
         IN  IF byRole \/ byIdentity THEN scopesOK
             ELSE checkPermissionsMutStopsAtScopes(i + 1, method, authCtx, permissions)

RECURSIVE checkPermissions(_, _, _, _)
checkPermissions(i, method, authCtx, permissions) ==
    IF i > Len(permissions) THEN FALSE
    ELSE LET perm == permissions[i]
             scopesOK == Len(perm.Scopes) = 0 \/ hasAllScopes(authCtx.Scopes, perm.Scopes)
             byRole == /\ perm.Role # ""
                       /\ hasRole(authCtx.Roles, perm.Role)
                       /\ hasMethod(perm.Methods, method)
             byIdentity == /\ perm.IdentityType # ""
                           /\ perm.IdentityType = authCtx.IdentityType
                           /\ hasMethod(perm.Methods, method)
             continue == checkPermissions(i + 1, method, authCtx, permissions)
         IN  IF byRole THEN (IF scopesOK THEN TRUE ELSE continue)
             ELSE IF byIdentity THEN (IF scopesOK THEN TRUE ELSE continue)
             ELSE continue

\* ValidateAuthorization for a route whose auth is required.
ValidateAuthorization(method, routeAuth, authCtx) ==
    IF ~authCtx.Authenticated THEN FALSE
    ELSE IF Len(routeAuth.AllowedRoles) > 0
            /\ ~hasAnyRole(authCtx.Roles, routeAuth.AllowedRoles) THEN FALSE
    ELSE IF Len(routeAuth.RequiredScopes) > 0
            /\ ~hasAllScopes(authCtx.Scopes, routeAuth.RequiredScopes) THEN FALSE
    ELSE IF Len(routeAuth.Permissions) > 0
            /\ ~checkPermissions(1, method, authCtx, routeAuth.Permissions) THEN FALSE
    ELSE TRUE

\* Scope strings: wildcards, scopes below them, a nested scope, and strings
\* that are no "prefix:name".
ScopeStrings ==
    {<<"read", ":", "*">>, <<"write", ":", "*">>, <<"read", ":", "sensors">>,
     <<"write", ":", "sensors">>, <<"read", ":", "sensors", ":", "raw">>,
     <<"read">>, <<"read", ":">>, <<"*">>}

ScopeLists == UNION {[1..n -> ScopeStrings] : n \in 0..MaxScopes}
ScopeInputs == [userScopes : ScopeLists, requiredScopes : ScopeLists]

InitScopes(inputs) ==
    /\ scIn \in inputs
    /\ scOut = [called |-> FALSE, match |-> <<>>, all |-> FALSE]

\* The required_scopes step of ValidateAuthorization: hasAllScopes, and the
\* matchScope results it is made of.
CheckScopes ==
    /\ ~scOut.called
    /\ scOut' = [called |-> TRUE,
                 match |-> [i \in 1..Len(scIn.requiredScopes) |->
                             [j \in 1..Len(scIn.userScopes) |->
                                matchScope(scIn.userScopes[j], scIn.requiredScopes[i])]],
                 all |-> hasAllScopes(scIn.userScopes, scIn.requiredScopes)]
    /\ scIn' = scIn

\* config.Permission as validate accepts it: methods given, role or
\* identity_type given.
Permissions ==
    {perm \in [Role : {"", "technician", "engineer"},
               IdentityType : {"", "device"},
               Methods : {<<"GET">>, <<"GET", "POST">>, <<"get">>},
               Scopes : {<<>>, <<<<"read", ":", "sensors">>>>}] :
        perm.Role # "" \/ perm.IdentityType # ""}

PermissionLists == UNION {[1..n -> Permissions] : n \in 0..MaxPermissions}

AuthContexts ==
    [Authenticated : {TRUE},
     IdentityType : {"user", "device"},
     Roles : {<<>>, <<"technician">>, <<"Technician">>, <<"engineer">>},
     Scopes : {<<>>, <<<<"read", ":", "*">>>>, <<<<"write", ":", "sensors">>>>}]

RouteAuths ==
    [AllowedRoles : {<<>>, <<"engineer">>},
     RequiredScopes : {<<>>, <<<<"read", ":", "sensors">>>>},
     Permissions : PermissionLists]

AuthzInputs == [method : {"GET", "POST"}, authCtx : AuthContexts, routeAuth : RouteAuths]

InitAuthz(inputs) ==
    /\ azIn \in inputs
    /\ azOut = [called |-> FALSE, authorized |-> FALSE, allowed |-> FALSE]

\* auth.Middleware calls ValidateAuthorization for the authenticated request.
Authorize ==
    /\ ~azOut.called
    /\ azOut' = [called |-> TRUE,
                 authorized |-> ValidateAuthorization(azIn.method, azIn.routeAuth, azIn.authCtx),
                 allowed |-> checkPermissions(1, azIn.method, azIn.authCtx,
                                              azIn.routeAuth.Permissions)]
    /\ azIn' = azIn

(***************************************************************************)
(* The dispatcher (Server.New, registerRoute, setupInternalEndpoints and   *)
(* mux.Router.Match).  A path is its segments and whether it ends in a     *)
(* slash; "/" has no segments.                                             *)
(***************************************************************************)
IsPrefix(a, b) == Len(a) <= Len(b) /\ SubSeq(b, 1, Len(a)) = a

\* route.Path, by the three branches of registerRoute: "/a/*", "/a/" and "/a".
RoutePatterns ==
    {pat \in [class : {"wildcard", "slash", "exact"},
              segs : {<<>>, <<"api">>, <<"api", "users">>, <<"_gonk">>}] :
        pat.class = "exact" => pat.segs # <<>>}

Routes == [pattern : RoutePatterns, methods : {{}, {"GET"}}]
RouteLists == UNION {[1..n -> Routes] : n \in 1..MaxRoutes}

RequestPaths ==
    {[segs |-> <<>>, slash |-> FALSE],
     [segs |-> <<"api">>, slash |-> FALSE],
     [segs |-> <<"api", "users">>, slash |-> FALSE],
     [segs |-> <<"api", "users">>, slash |-> TRUE],
     [segs |-> <<"api", "users", "7">>, slash |-> FALSE],
     [segs |-> <<"_gonk", "health">>, slash |-> FALSE],
     [segs |-> <<"_gonk", "cache", "clear">>, slash |-> FALSE],
     [segs |-> <<"metrics">>, slash |-> FALSE]}

\* registerRoute: PathPrefix for a pattern ending in "/*" or "/", otherwise
\* Handle(path) and Handle(path + "/"); each with the route's methods.
registerRoute(route, i) ==
    IF route.pattern.class \in {"wildcard", "slash"}
    THEN <<[prefix |-> TRUE, segs |-> route.pattern.segs, slash |-> TRUE,
            methods |-> route.methods, route |-> i, name |-> "route"]>>
    ELSE <<[prefix |-> FALSE, segs |-> route.pattern.segs, slash |-> FALSE,
            methods |-> route.methods, route |-> i, name |-> "route"],
           [prefix |-> FALSE, segs |-> route.pattern.segs, slash |-> TRUE,
            methods |-> route.methods, route |-> i, name |-> "route"]>>

RECURSIVE setupRoutes(_, _)
setupRoutes(routes, i) ==
    IF i > Len(routes) THEN <<>>
    ELSE registerRoute(routes[i], i) \o setupRoutes(routes, i + 1)

InternalEndpoint(segs, method, name) ==
    [prefix |-> FALSE, segs |-> segs, slash |-> FALSE, methods |-> {method},
     route |-> 0, name |-> name]

\* setupInternalEndpoints, with metrics enabled at the default path.
setupInternalEndpoints ==
    <<InternalEndpoint(<<"_gonk", "health">>, "GET", "HealthHandler"),
      InternalEndpoint(<<"_gonk", "live">>, "GET", "LivenessHandler"),
      InternalEndpoint(<<"_gonk", "ready">>, "GET", "ReadinessHandler"),
      InternalEndpoint(<<"_gonk", "info">>, "GET", "infoHandler"),
      InternalEndpoint(<<"metrics">>, "GET", "metrics.Handler"),
      InternalEndpoint(<<"_gonk", "cache", "clear">>, "POST", "clearCacheHandler"),
      InternalEndpoint(<<"_gonk", "cache", "stats">>, "GET", "cacheStatsHandler")>>

\* Server.New: setupRoutes, then setupInternalEndpoints.
NewRouter(routes) == setupRoutes(routes, 1) \o setupInternalEndpoints

\* The path matcher of a registered route: a PathPrefix template matches the
\* paths that start with it; with StrictSlash(true) a Handle template matches
\* its path with or without the trailing slash.
matchPath(entry, path) ==
    IF entry.prefix
    THEN /\ IsPrefix(entry.segs, path.segs)
         /\ (Len(path.segs) > Len(entry.segs) \/ path.slash \/ entry.segs = <<>>)
    ELSE path.segs = entry.segs

matchMethod(entry, method) == entry.methods = {} \/ method \in entry.methods

NoDispatch == [status |-> 0, entry |-> 0, route |-> 0, name |-> "none"]

\* mux.Router.Match: the first registered route whose matchers all hold
\* serves the request (StrictSlash answers 301 when only the trailing slash
\* differs); 405 when only paths matched, 404 when nothing did.
Match(table, req) ==
    LET hits == {i \in 1..Len(table) :
                    matchPath(table[i], req.path) /\ matchMethod(table[i], req.method)}
        first == CHOOSE i \in hits : \A j \in hits : i <= j
    IN  IF hits # {}
        THEN [status |-> IF ~table[first].prefix /\ table[first].slash # req.path.slash
                         THEN 301 ELSE 200,
              entry |-> first, route |-> table[first].route, name |-> table[first].name]
        ELSE IF \E i \in 1..Len(table) : matchPath(table[i], req.path)
        THEN [NoDispatch EXCEPT !.status = 405]
        ELSE [NoDispatch EXCEPT !.status = 404]

InitRoute(routeLists, paths) ==
    /\ rtRoutes \in routeLists
    /\ rtTable = NewRouter(rtRoutes)
    /\ rtReq \in [path : paths, method : {"GET", "POST"}]
    /\ rtOut = NoDispatch

\* The router serves the request.
ServeHTTP ==
    /\ rtOut = NoDispatch
    /\ rtOut' = Match(rtTable, rtReq)
    /\ UNCHANGED <<rtRoutes, rtTable, rtReq>>

(***************************************************************************)
(* The life of the health-check tasks: NewLoadBalancer starts one          *)
(* healthCheckLoop per load balancer; Server.Reload builds new handlers;   *)
(* Server.Start returns after httpServer.Shutdown and main returns.        *)
(***************************************************************************)
\* How many load-balanced routes a configuration declares, and how many
\* upstreams each of them has.
LifeConfigs == UNION {[1..n -> 1..MaxUpstreams] : n \in 0..MaxLBRoutes}

\* NewLoadBalancer: stopCh is made open and `go lb.healthCheckLoop()` runs.
\* current tells whether the server's router still holds the handler.
NewLoadBalancer(upstreams) ==
    [upstreams |-> upstreams, stopCh |-> "open", loop |-> "running", probes |-> 0,
     current |-> TRUE]

\* setupRoutes: addRoute calls NewHandler for each route of the configuration.
NewHandlers(c) == [i \in 1..Len(c) |-> NewLoadBalancer(c[i])]

InitLife(cfgs) ==
    /\ lifeSrv = "running"
    /\ \E c \in cfgs : lifeLBs = NewHandlers(c)
    /\ lifeReloads = 0

\* LoadBalancer.Stop, called by Handler.Close only: close(lb.stopCh).
Stop(lb) == [lb EXCEPT !.stopCh = "closed"]

\* Server.Reload: a new router and setupRoutes.  The handlers of the old
\* router are dropped with it; nothing calls Handler.Close on them.
ReloadHandlers ==
    /\ lifeSrv = "running"
    /\ lifeReloads < MaxReloads
    /\ \E c \in LifeConfigs :
        lifeLBs' = [k \in 1..Len(lifeLBs) |-> [lifeLBs[k] EXCEPT !.current = FALSE]]
                   \o NewHandlers(c)
    /\ lifeReloads' = lifeReloads + 1
    /\ UNCHANGED lifeSrv

\* healthCheckLoop, one turn of its select: the ticker fires and
\* performHealthChecks starts one checkUpstreamHealth per upstream, or stopCh
\* is closed and the loop returns.
healthCheckLoop(k) ==
    /\ lifeSrv # "exited"
    /\ lifeLBs[k].loop = "running"
    /\ \/ /\ lifeLBs[k].probes + lifeLBs[k].upstreams <= MaxInFlight
          /\ lifeLBs' = [lifeLBs EXCEPT ![k].probes = @ + lifeLBs[k].upstreams]
       \/ /\ lifeLBs[k].stopCh = "closed"
          /\ lifeLBs' = [lifeLBs EXCEPT ![k].loop = "exited"]
    /\ UNCHANGED <<lifeSrv, lifeReloads>>

\* checkUpstreamHealth: one probe answers or times out, and its goroutine ends.
checkUpstreamHealth(k) ==
    /\ lifeSrv # "exited"
    /\ lifeLBs[k].probes > 0
    /\ lifeLBs' = [lifeLBs EXCEPT ![k].probes = @ - 1]
    /\ UNCHANGED <<lifeSrv, lifeReloads>>

\* Server.Start on ctx.Done(): httpServer.Shutdown(shutdownCtx), then return.
Shutdown ==
    /\ lifeSrv = "running"
    /\ lifeSrv' = "shutdown"
    /\ UNCHANGED <<lifeLBs, lifeReloads>>

\* main returns after srv.Start: the process ends and its goroutines with it.
mainReturns ==
    /\ lifeSrv = "shutdown"
    /\ lifeSrv' = "exited"
    /\ lifeLBs' = [k \in 1..Len(lifeLBs) |->
                     [lifeLBs[k] EXCEPT !.loop = IF @ = "running" THEN "killed" ELSE @,
                                        !.probes = 0]]
    /\ UNCHANGED lifeReloads

(***************************************************************************)
(* Handler.handleWebSocket: the upstream is dialled, the client is         *)
(* upgraded, two goroutines copy messages and the handler waits for the    *)
(* first error on errChan; its deferred calls close both connections.      *)
(***************************************************************************)
Sides == {"client", "upstream"}
Pumps == {"c2u", "u2c"}

\* The connection a pump reads from and the one it writes to.
PumpSrc(p) == IF p = "c2u" THEN "client" ELSE "upstream"
PumpDst(p) == IF p = "c2u" THEN "upstream" ELSE "client"

\* errChan := make(chan error, 2)
ErrChanCap == 2

\* What ReadMessage and WriteMessage return when they fail: a close frame of
\* the peer (normal, going away, other), or an error of the connection.
CloseErrors == {"CloseNormalClosure", "CloseGoingAway", "CloseAbnormal"}
ConnErrors == CloseErrors \cup {"netError"}

\* The log condition after <-errChan.
logsProxyError(err) == err \notin {"CloseNormalClosure", "CloseGoingAway"}

deferredCloseMutClientOnly(conn) == [conn EXCEPT !["client"] = "closed"]

\* defer upstreamConn.Close() and defer clientConn.Close(), run at return.
deferredClose(conn) == [side \in Sides |-> "closed"]

InitWS(inputs) ==
    /\ wsIn \in inputs
    /\ wsPc = "dial"
    /\ wsStatus = 0
    /\ wsConn = [side \in Sides |-> "none"]
    /\ wsInbox = [side \in Sides |-> FALSE]
    /\ wsPump = [p \in Pumps |-> "none"]
    /\ wsErr = [p \in Pumps |-> "none"]
    /\ wsErrChan = <<>>
    /\ wsLogged = FALSE

\* websocket.DefaultDialer.Dial: 502 when the upstream cannot be reached.
wsDial ==
    /\ wsPc = "dial"
    /\ \/ /\ wsPc' = "done"
          /\ wsStatus' = 502
          /\ UNCHANGED wsConn
       \/ /\ wsPc' = "upgrade"
          /\ wsConn' = [wsConn EXCEPT !["upstream"] = "open"]
          /\ UNCHANGED wsStatus
    /\ UNCHANGED <<wsIn, wsInbox, wsPump, wsErr, wsErrChan, wsLogged>>

\* wsUpgrader.Upgrade: it answers 500 and fails for a writer that is not an
\* http.Hijacker, and the handler returns (upstreamConn is closed by its
\* defer); otherwise the two goroutines start.
wsUpgrade ==
    /\ wsPc = "upgrade"
    /\ IF wsIn.hijacker
       THEN /\ wsPc' = "wait"
            /\ wsStatus' = 101
            /\ wsConn' = [wsConn EXCEPT !["client"] = "open"]
            /\ wsPump' = [p \in Pumps |-> "read"]
       ELSE /\ wsPc' = "done"
            /\ wsStatus' = 500
            /\ wsConn' = [wsConn EXCEPT !["upstream"] = "closed"]
            /\ UNCHANGED wsPump
    /\ UNCHANGED <<wsIn, wsInbox, wsErr, wsErrChan, wsLogged>>

\* A peer sends a message.
wsPeerSends(side) ==
    /\ wsConn[side] = "open"
    /\ ~wsInbox[side]
    /\ wsInbox' = [wsInbox EXCEPT ![side] = TRUE]
    /\ UNCHANGED <<wsIn, wsPc, wsStatus, wsConn, wsPump, wsErr, wsErrChan, wsLogged>>

\* A peer closes its side, or its connection breaks.
wsPeerCloses(side) ==
    /\ wsConn[side] = "open"
    /\ wsConn' = [wsConn EXCEPT ![side] = "peerClosed"]
    /\ UNCHANGED <<wsIn, wsPc, wsStatus, wsInbox, wsPump, wsErr, wsErrChan, wsLogged>>

\* ReadMessage of a pump: a message that waits is returned; on a connection
\* the peer has closed, or the handler has closed, it returns an error.  On
\* an open connection with no message it blocks.
wsPumpRead(p) ==
    /\ wsPump[p] = "read"
    /\ LET src == PumpSrc(p) IN
        \/ /\ wsInbox[src]
           /\ wsConn[src] \in {"open", "peerClosed"}
           /\ wsInbox' = [wsInbox EXCEPT ![src] = FALSE]
           /\ wsPump' = [wsPump EXCEPT ![p] = "write"]
           /\ UNCHANGED wsErr
        \/ /\ ~wsInbox[src]
           /\ wsConn[src] = "peerClosed"
           /\ \E e \in ConnErrors : wsErr' = [wsErr EXCEPT ![p] = e]
           /\ wsPump' = [wsPump EXCEPT ![p] = "send"]
           /\ UNCHANGED wsInbox
        \/ /\ wsConn[src] = "closed"
           /\ wsErr' = [wsErr EXCEPT ![p] = "netError"]
           /\ wsPump' = [wsPump EXCEPT ![p] = "send"]
           /\ UNCHANGED wsInbox
    /\ UNCHANGED <<wsIn, wsPc, wsStatus, wsConn, wsErrChan, wsLogged>>

\* WriteMessage of a pump: it fails on a connection the handler has closed,
\* and may fail on one the peer has closed.
wsPumpWrite(p) ==
    /\ wsPump[p] = "write"
    /\ LET dst == PumpDst(p) IN
        \/ /\ wsConn[dst] \in {"open", "peerClosed"}
           /\ wsPump' = [wsPump EXCEPT ![p] = "read"]
           /\ UNCHANGED wsErr
        \/ /\ wsConn[dst] \in {"peerClosed", "closed"}
           /\ wsErr' = [wsErr EXCEPT ![p] = "netError"]
           /\ wsPump' = [wsPump EXCEPT ![p] = "send"]
    /\ UNCHANGED <<wsIn, wsPc, wsStatus, wsConn, wsInbox, wsErrChan, wsLogged>>

\* errChan <- err; return.  The send blocks while the buffer is full.
wsPumpSend(p) ==
    /\ wsPump[p] = "send"
    /\ Len(wsErrChan) < ErrChanCap
    /\ wsErrChan' = Append(wsErrChan, wsErr[p])
    /\ wsPump' = [wsPump EXCEPT ![p] = "done"]
    /\ UNCHANGED <<wsIn, wsPc, wsStatus, wsConn, wsInbox, wsErr, wsLogged>>

\* err = <-errChan, the log, and the return of the handler with its defers.
wsWait ==
    /\ wsPc = "wait"
    /\ wsErrChan # <<>>
    /\ wsLogged' = logsProxyError(Head(wsErrChan))
    /\ wsErrChan' = Tail(wsErrChan)
    /\ wsConn' = deferredClose(wsConn)
    /\ wsPc' = "done"
    /\ UNCHANGED <<wsIn, wsStatus, wsInbox, wsPump, wsErr>>

(***************************************************************************)
(* auth.ValidateJWT, as called by auth.Middleware for a route of type jwt: *)
(* a pure function of the request's header and the JWTConfig.              *)
(***************************************************************************)
\* The values of the token's alg header: the signing methods golang-jwt
\* registers, and one it does not know.
JWTAlgs == {"HS256", "HS384", "HS512", "RS256", "ES256", "none", "unknown"}

\* jwt.GetSigningMethod: nil for an alg that is not registered.
GetSigningMethod(alg) == alg # "unknown"

\* token.Method.(*jwt.SigningMethodHMAC): SigningMethodHS256, HS384 and HS512
\* are the values of that type.
SigningMethodHMAC == {"HS256", "HS384", "HS512"}

\* The Keyfunc of ValidateJWT: the shared secret for an HMAC method, an error
\* for every other method.
keyfuncAccepts(alg) == alg \in SigningMethodHMAC

\* jwt.ParseWithClaims: the method is looked up, the Keyfunc gives the key,
\* the signature is verified with it, and the registered claims are
\* validated (exp, when present, must not have passed).
ParseWithClaims(token) ==
    /\ GetSigningMethod(token.alg)
    /\ keyfuncAccepts(token.alg)
    /\ token.signedWith = "shared"
    /\ token.exp # "past"

\* extractToken: "" when the header is absent or does not have the prefix.
extractToken(in) == IF in.header = "token" THEN "token" ELSE ""

\* ValidateJWT: whether it returns an AuthContext (and no error).
ValidateJWT(in) ==
    /\ extractToken(in) # ""
    /\ ParseWithClaims(in)
    /\ ~(in.ExpiryCheck /\ in.exp = "past")
    /\ ~(in.ValidateRoles /\ in.roles = 0)

JWTInputs ==
    [header : {"absent", "wrongPrefix", "token"},
     alg : JWTAlgs,
     signedWith : {"shared", "other"},
     exp : {"absent", "future", "past"},
     roles : {0, 1},
     ExpiryCheck : BOOLEAN,
     ValidateRoles : BOOLEAN]

InitJWT(inputs) ==
    /\ jwtIn \in inputs
    /\ jwtOut = [called |-> FALSE, authenticated |-> FALSE, status |-> 0]

\* auth.Middleware up to "Check authentication result": respondUnauthorized
\* when ValidateJWT returned an error; status 0 stands for going on to the
\* authorization checks.
Authenticate ==
    /\ ~jwtOut.called
    /\ jwtOut' = [called |-> TRUE,
                  authenticated |-> ValidateJWT(jwtIn),
                  status |-> IF ValidateJWT(jwtIn) THEN 0 ELSE 401]
    /\ jwtIn' = jwtIn

(***************************************************************************)
(* middleware.Transform: the request rule is applied to r.Header by the    *)
(* handler, the response rule to w.Header() by the first WriteHeader of    *)
(* transformResponseWriter.  A header set maps each key to its value, ""   *)
(* when the key is absent.                                                 *)
(***************************************************************************)
TransformKeys == {"X-A", "X-B"}

\* The values an add_headers entry can have: a literal, or a text with one
\* of the two variables; "" for a key the rule does not add.
AddValues == {"", "v", "${request_id}", "${remote_addr}"}

\* generateRequestID: fmt.Sprintf("%d", time.Now().UnixNano()).
generateRequestID(t) == ToString(t)

\* The two strings.ReplaceAll calls of the request transform.
substitute(v, t, remoteAddr) ==
    CASE v = "${request_id}" -> generateRequestID(t)
      [] v = "${remote_addr}" -> remoteAddr
      [] OTHER -> v

\* One application of a rule: Header.Set for every add_headers entry (with
\* substitution in the request transform only), then Header.Del for every
\* remove_headers entry.
applyRule(h, in, t) ==
    LET added == [k \in TransformKeys |->
                    IF in.AddHeaders[k] = "" THEN h[k]
                    ELSE IF in.kind = "request"
                         THEN substitute(in.AddHeaders[k], t, in.RemoteAddr)
                         ELSE in.AddHeaders[k]]
    IN  [k \in TransformKeys |-> IF k \in in.RemoveHeaders THEN "" ELSE added[k]]

TransformInputs ==
    [kind : {"request", "response"},
     AddHeaders : [TransformKeys -> AddValues],
     RemoveHeaders : SUBSET TransformKeys,
     RemoteAddr : {"10.0.0.1:5"},
     headers : [TransformKeys -> {"", "old"}]]

InitTransform(inputs) ==
    /\ trIn \in inputs
    /\ trHist = <<trIn.headers>>

\* The transform is applied to the header set the last application produced:
\* a first and a second time.
Transform ==
    /\ Len(trHist) < 3
    /\ trHist' = Append(trHist, applyRule(trHist[Len(trHist)], trIn, now))
    /\ trIn' = trIn

(***************************************************************************)
(* readGRPCFrame and writeGRPCFrame: a frame is one flag byte, four bytes  *)
(* of big-endian length and the payload.  Bytes are numbers 0..255.        *)
(***************************************************************************)
\* 16*1024*1024, the largest length readGRPCFrame accepts.
MaxMessageLength == 16777216

\* binary.BigEndian.Uint32 of four bytes.
Uint32(b) == b[1] * 16777216 + b[2] * 65536 + b[3] * 256 + b[4]

\* io.ReadFull(r, buf) for a buffer of n bytes: the bytes and what is left,
\* or an error when the reader ends first.
ReadFull(stream, n) ==
    IF Len(stream) >= n
    THEN [err |-> "none", buf |-> SubSeq(stream, 1, n), rest |-> SubSeq(stream, n + 1, Len(stream))]
    ELSE [err |-> IF Len(stream) = 0 /\ n > 0 THEN "EOF" ELSE "ErrUnexpectedEOF",
          buf |-> <<>>, rest |-> <<>>]

NoFrame(err) == [err |-> err, frame |-> <<>>, rest |-> <<>>]

readGRPCFrameMutPayloadOnly(stream) ==
    LET header == ReadFull(stream, 5)
        data == ReadFull(header.rest, Uint32(SubSeq(header.buf, 2, 5)))
    IN  IF header.err # "none" THEN NoFrame(header.err)
        ELSE IF Uint32(SubSeq(header.buf, 2, 5)) > MaxMessageLength THEN NoFrame("too large")
        ELSE IF data.err # "none" THEN NoFrame(data.err)
        ELSE IF header.buf[1] = 1 THEN NoFrame("compressed")
        ELSE [err |-> "none", frame |-> data.buf, rest |-> data.rest]

\* readGRPCFrame: the frame it returns is the header followed by the data.
readGRPCFrame(stream) ==
    LET header == ReadFull(stream, 5)
        data == ReadFull(header.rest, Uint32(SubSeq(header.buf, 2, 5)))
    IN  IF header.err # "none" THEN NoFrame(header.err)
        ELSE IF Uint32(SubSeq(header.buf, 2, 5)) > MaxMessageLength THEN NoFrame("too large")
        ELSE IF data.err # "none" THEN NoFrame(data.err)
        ELSE IF header.buf[1] = 1 THEN NoFrame("compressed")
        ELSE [err |-> "none", frame |-> header.buf \o data.buf, rest |-> data.rest]

\* writeGRPCFrame: w.Write(frame) appends the frame to what w holds.
writeGRPCFrame(written, frame) == written \o frame

\* The readers: a flag, a length (the high byte reaches past the limit, the
\* low byte past the payloads), a payload and what follows it.
PayloadBytes == {0, 1, 255}
Payloads == UNION {[1..n -> PayloadBytes] : n \in 0..MaxPayload}
FrameStreams ==
    {<<flag, hi, 0, 0, lo>> \o payload \o more :
        flag \in {0, 1, 2}, hi \in {0, 1, 2}, lo \in 0..(MaxPayload + 1),
        payload \in Payloads, more \in {<<>>, <<0>>}}
    \cup {<<>>, <<0, 0>>}

InitFrames(inputs) ==
    /\ frIn \in inputs
    /\ frOut = [called |-> FALSE, err |-> "none", frame |-> <<>>, rest |-> <<>>, written |-> <<>>]

\* A pump's turn: a frame is read from one side and, when there was no
\* error, written to the other.
CopyFrame ==
    /\ ~frOut.called
    /\ LET got == readGRPCFrame(frIn)
       IN  frOut' = [called |-> TRUE, err |-> got.err, frame |-> got.frame, rest |-> got.rest,
                     written |-> IF got.err = "none" THEN writeGRPCFrame(<<>>, got.frame)
                                 ELSE <<>>]
    /\ frIn' = frIn

(***************************************************************************)
(* getKey of the rate limiter, for requests that auth.Middleware let       *)
(* through.                                                                *)
(***************************************************************************)
\* A request: how the route authenticates, the client identifier of the
\* authenticated client (AuthContext.ClientID), the X-Client-ID header the
\* client sent ("" when none), and the host and port of r.RemoteAddr.
KeyRequests ==
    [authType : {"api_key", "jwt"}, client : {"c1", "c2"},
     sentClientID : {"", "c1", "c9"}, host : {"10.0.0.1", "10.0.0.2"}, port : {"7", "8"}]

KeyInputs == [by : {"client_id", "ip"}, reqs : [1..2 -> KeyRequests]]

\* The X-Client-ID header of the request when it reaches RateLimit:
\* ValidateAPIKey sets it to the key's client_id, ValidateJWT leaves the
\* request's headers as they came.
clientIDHeader(req) ==
    IF req.authType = "api_key" THEN req.client ELSE req.sentClientID

RemoteAddr(req) == <<req.host, ":", req.port>>

\* net.SplitHostPort: the host of "host:port".
SplitHostPort(addr) == <<addr[1]>>

\* getKey: X-Client-ID when by is "client_id" and the header is not empty,
\* the host of r.RemoteAddr for every other by but "client_id", r.RemoteAddr
\* otherwise.
getKey(req, by) ==
    IF by = "client_id"
    THEN IF clientIDHeader(req) # "" THEN <<clientIDHeader(req)>> ELSE RemoteAddr(req)
    ELSE SplitHostPort(RemoteAddr(req))

InitKeys(inputs) ==
    /\ kyIn \in inputs
    /\ kyOut = <<>>

RateLimitKeys ==
    /\ kyOut = <<>>
    /\ kyOut' = [i \in 1..2 |-> getKey(kyIn.reqs[i], kyIn.by)]
    /\ UNCHANGED kyIn

(***************************************************************************)
(* The mutexes of the load balancer and of the circuit breaker: what each  *)
(* operation locks and unlocks, in the order of its code, under the rules  *)
(* of sync.RWMutex (a Lock that waits for the readers keeps new readers    *)
(* out).  The data the operations read and write is left out; where the    *)
(* data decides which calls are made, both paths are programs.             *)
(***************************************************************************)
LockThreads == 1..NumLockThreads

lbMutex == [kind |-> "lb", k |-> 0]
upstreamMutex(k) == [kind |-> "upstream", k |-> k]
cbMutex == [kind |-> "cb", k |-> 0]
Mutexes == {lbMutex, cbMutex} \cup {upstreamMutex(k) : k \in 1..MaxUpstreams}

Call(op, mutex) == <<[op |-> op, mutex |-> mutex]>>

RECURSIVE Concat(_, _, _)
\* the programs prog(1), ..., prog(n) one after the other, from k on
Concat(prog(_), k, n) == IF k > n THEN <<>> ELSE prog(k) \o Concat(prog, k + 1, n)

readUpstream(k) == Call("RLock", upstreamMutex(k)) \o Call("RUnlock", upstreamMutex(k))
writeUpstream(k) == Call("Lock", upstreamMutex(k)) \o Call("Unlock", upstreamMutex(k))

\* getHealthyUpstreams: RLock / RUnlock of every upstream in turn.
getHealthyUpstreamsLocks == Concat(readUpstream, 1, MaxUpstreams)

\* GetNextUpstream: lb.mutex.RLock, getHealthyUpstreams, deferred RUnlock (the
\* strategies use atomics only).
GetNextUpstreamLocks ==
    Call("RLock", lbMutex) \o getHealthyUpstreamsLocks \o Call("RUnlock", lbMutex)

\* ReleaseConnection: lb.mutex.RLock, atomics, deferred RUnlock.
ReleaseConnectionLocks == Call("RLock", lbMutex) \o Call("RUnlock", lbMutex)

\* RecordFailure on upstream k: lb.mutex.Lock; upstream.mutex.Lock / Unlock
\* when the failures reached the threshold; deferred Unlock.
RecordFailureLocks(k, threshold) ==
    Call("Lock", lbMutex) \o (IF threshold THEN writeUpstream(k) ELSE <<>>)
        \o Call("Unlock", lbMutex)

\* RecordSuccess on upstream k: lb.mutex.Lock; upstream.mutex.Lock / Unlock;
\* deferred Unlock.
RecordSuccessLocks(k) == Call("Lock", lbMutex) \o writeUpstream(k) \o Call("Unlock", lbMutex)

\* markHealthy / markUnhealthy of a probe: upstream.mutex.Lock, deferred
\* Unlock; lb.mutex is not taken.
markLocks(k) == writeUpstream(k)

\* performHealthChecks: lb.mutex.RLock, copy of the slice, RUnlock.
performHealthChecksLocks == Call("RLock", lbMutex) \o Call("RUnlock", lbMutex)

\* GetStats: lb.mutex.RLock; RLock / RUnlock of every upstream;
\* getHealthyUpstreams; deferred RUnlock.
GetStatsLocks ==
    Call("RLock", lbMutex) \o Concat(readUpstream, 1, MaxUpstreams)
        \o getHealthyUpstreamsLocks \o Call("RUnlock", lbMutex)

canExecuteLocksMutUpgrade(handOver) ==
    Call("RLock", cbMutex)
        \o (IF handOver
            THEN Call("Lock", cbMutex) \o Call("Unlock", cbMutex)
            ELSE <<>>)
        \o Call("RUnlock", cbMutex)

\* canExecute: RLock, deferred RUnlock; on the Open state with the reset
\* timeout elapsed (handOver) RUnlock, Lock, Unlock, RLock in between.
canExecuteLocks(handOver) ==
    Call("RLock", cbMutex)
        \o (IF handOver
            THEN Call("RUnlock", cbMutex) \o Call("Lock", cbMutex)
                     \o Call("Unlock", cbMutex) \o Call("RLock", cbMutex)
            ELSE <<>>)
        \o Call("RUnlock", cbMutex)

\* recordResult: Lock, deferred Unlock.
recordResultLocks == Call("Lock", cbMutex) \o Call("Unlock", cbMutex)

LockPrograms ==
    {GetNextUpstreamLocks, ReleaseConnectionLocks, performHealthChecksLocks, GetStatsLocks,
     recordResultLocks}
    \cup {RecordFailureLocks(k, th) : k \in 1..MaxUpstreams, th \in BOOLEAN}
    \cup {RecordSuccessLocks(k) : k \in 1..MaxUpstreams}
    \cup {markLocks(k) : k \in 1..MaxUpstreams}
    \cup {canExecuteLocks(h) : h \in BOOLEAN}

InitLocks ==
    /\ lkProg = [t \in LockThreads |-> <<>>]
    /\ lkPc = [t \in LockThreads |-> 1]
    /\ lkReaders = [m \in Mutexes |-> {}]
    /\ lkWriter = [m \in Mutexes |-> 0]
    /\ lkPending = [m \in Mutexes |-> 0]

lkRunning(t) == lkProg[t] # <<>> /\ lkPc[t] <= Len(lkProg[t])
lkNext(t) == lkProg[t][lkPc[t]]
lkAt(t, op) == lkRunning(t) /\ lkNext(t).op = op

\* a goroutine calls one of the operations
lkCall(t) ==
    /\ lkProg[t] = <<>>
    /\ \E prog \in LockPrograms : lkProg' = [lkProg EXCEPT ![t] = prog]
    /\ lkPc' = [lkPc EXCEPT ![t] = 1]
    /\ UNCHANGED <<lkReaders, lkWriter, lkPending>>

\* RWMutex.RLock: waits while a writer holds the mutex or waits for it
lkRLock(t) ==
    /\ lkAt(t, "RLock")
    /\ lkWriter[lkNext(t).mutex] = 0
    /\ lkPending[lkNext(t).mutex] = 0
    /\ lkReaders' = [lkReaders EXCEPT ![lkNext(t).mutex] = @ \cup {t}]
    /\ lkPc' = [lkPc EXCEPT ![t] = @ + 1]
    /\ UNCHANGED <<lkProg, lkWriter, lkPending>>

lkRUnlock(t) ==
    /\ lkAt(t, "RUnlock")
    /\ lkReaders' = [lkReaders EXCEPT ![lkNext(t).mutex] = @ \ {t}]
    /\ lkPc' = [lkPc EXCEPT ![t] = @ + 1]
    /\ UNCHANGED <<lkProg, lkWriter, lkPending>>

\* RWMutex.Lock, first half: past the writers' mutex, new readers are kept out
lkLockAnnounce(t) ==
    /\ lkAt(t, "Lock")
    /\ lkWriter[lkNext(t).mutex] = 0
    /\ lkPending[lkNext(t).mutex] = 0
    /\ lkPending' = [lkPending EXCEPT ![lkNext(t).mutex] = t]
    /\ UNCHANGED <<lkProg, lkPc, lkReaders, lkWriter>>

\* RWMutex.Lock, second half: the readers have left
lkLockAcquire(t) ==
    /\ lkAt(t, "Lock")
    /\ lkPending[lkNext(t).mutex] = t
    /\ lkReaders[lkNext(t).mutex] = {}
    /\ lkPending' = [lkPending EXCEPT ![lkNext(t).mutex] = 0]
    /\ lkWriter' = [lkWriter EXCEPT ![lkNext(t).mutex] = t]
    /\ lkPc' = [lkPc EXCEPT ![t] = @ + 1]
    /\ UNCHANGED <<lkProg, lkReaders>>

lkUnlock(t) ==
    /\ lkAt(t, "Unlock")
    /\ lkWriter' = [lkWriter EXCEPT ![lkNext(t).mutex] = 0]
    /\ lkPc' = [lkPc EXCEPT ![t] = @ + 1]
    /\ UNCHANGED <<lkProg, lkReaders, lkPending>>

\* the operation returns
lkReturn(t) ==
    /\ lkProg[t] # <<>>
    /\ lkPc[t] > Len(lkProg[t])
    /\ lkProg' = [lkProg EXCEPT ![t] = <<>>]
    /\ lkPc' = [lkPc EXCEPT ![t] = 1]
    /\ UNCHANGED <<lkReaders, lkWriter, lkPending>>

(***************************************************************************)
(* proxy.NewHandler and the dispatch of Handler.ServeHTTP: which of the    *)
(* handler's forwarders are built for a route and which one a request is   *)
(* handed to.                                                              *)
(***************************************************************************)
Protocols == {"http", "https", "ws", "wss", "grpc"}
GRPCShapes == {"http1", "badContentType", "badPath", "unary", "streaming"}

\* reachable: url.Parse and the dial of newGRPCProxy succeed.
FwdInputs ==
    [route : [protocol : Protocols, upstreams : 0..MaxUpstreams, loadBalancing : BOOLEAN,
              reachable : BOOLEAN],
     req : [upgrade : BOOLEAN, grpc : GRPCShapes]]

NoHandler == [err |-> TRUE, httpProxy |-> FALSE, grpcProxy |-> FALSE, loadBalancer |-> FALSE]

\* NewHandler: a load balancer for several upstreams or a load_balancing
\* section (NewLoadBalancer refuses an empty list); for a single upstream a
\* gRPC proxy when the protocol is grpc, an HTTP proxy otherwise; an error
\* without upstreams.  A field is TRUE when it is not nil.
NewHandler(route) ==
    IF route.upstreams > 1 \/ route.loadBalancing
    THEN IF route.upstreams = 0 \/ ~route.reachable
         THEN NoHandler
         ELSE [NoHandler EXCEPT !.err = FALSE, !.loadBalancer = TRUE]
    ELSE IF route.upstreams = 1
    THEN IF ~route.reachable
         THEN NoHandler
         ELSE IF route.protocol = "grpc"
         THEN [NoHandler EXCEPT !.err = FALSE, !.grpcProxy = TRUE]
         ELSE [NoHandler EXCEPT !.err = FALSE, !.httpProxy = TRUE]
    ELSE NoHandler

\* handleWebSocket: the load balancer when there is one, else the first
\* upstream of the route.
handleWebSocket(h, route) ==
    IF h.loadBalancer THEN "loadBalancer"
    ELSE IF route.upstreams > 0 THEN "upstream" ELSE "none"

\* handleGRPC: malformed requests are refused before h.grpcProxy is used for
\* getConnection.
handleGRPC(req) ==
    IF req.grpc \in {"http1", "badContentType", "badPath"} THEN "none" ELSE "grpcProxy"

\* Handler.ServeHTTP: the forwarder the request is handed to.
dispatch(h, route, req) ==
    IF route.protocol \in {"ws", "wss"} /\ req.upgrade THEN handleWebSocket(h, route)
    ELSE IF route.protocol = "grpc" THEN handleGRPC(req)
    ELSE IF h.loadBalancer THEN "loadBalancer"
    ELSE "httpProxy"

\* the forwarder is a nil field of the handler
isNil(h, forwarder) ==
    /\ forwarder \in {"httpProxy", "grpcProxy", "loadBalancer"}
    /\ ~h[forwarder]

InitFwd(inputs) ==
    /\ \E in \in inputs : fwRoute = in.route /\ fwReq = in.req
    /\ fwH = <<>>
    /\ fwUse = [forwarder |-> "unserved", nil |-> FALSE]

\* addRoute calls NewHandler(route)
fwNewHandler ==
    /\ fwH = <<>>
    /\ fwH' = <<NewHandler(fwRoute)>>
    /\ UNCHANGED <<fwRoute, fwReq, fwUse>>

\* a request reaches the handler that NewHandler returned without an error
fwServeHTTP ==
    /\ fwH # <<>>
    /\ ~fwH[1].err
    /\ fwUse.forwarder = "unserved"
    /\ fwUse' = [forwarder |-> dispatch(fwH[1], fwRoute, fwReq),
                 nil |-> isNil(fwH[1], dispatch(fwH[1], fwRoute, fwReq))]
    /\ UNCHANGED <<fwRoute, fwH, fwReq>>

(***************************************************************************)
(* The log lines of the load balancer that report a change of an           *)
(* upstream's health.                                                      *)
(***************************************************************************)
NoEvent == [upstream |-> 0, to |-> "none"]

InitLog == lgEvent = NoEvent

\* RecordFailure: "Upstream %s marked unhealthy after %d failures", printed
\* whenever the count has reached the threshold.
RecordFailureLog(t) ==
    lgEvent' = [upstream |-> FirstMatch(lbCfg, lbLoc[t].sel), to |-> "unhealthy"]

\* RecordSuccess: "Upstream %s marked healthy", printed if !upstream.Healthy.
RecordSuccessLog(t) ==
    LET j == FirstMatch(lbCfg, lbLoc[t].sel) IN
    lgEvent' = IF ~lbUp[j].Healthy THEN [upstream |-> j, to |-> "healthy"] ELSE NoEvent

\* markHealthy: "recovered and marked healthy", printed if wasUnhealthy.
markHealthyLog(k) ==
    lgEvent' = IF ~lbUp[k].Healthy THEN [upstream |-> k, to |-> "healthy"] ELSE NoEvent

\* markUnhealthy: "failed health check and marked unhealthy", printed if
\* wasHealthy.
markUnhealthyLog(k) ==
    lgEvent' = IF lbUp[k].Healthy THEN [upstream |-> k, to |-> "unhealthy"] ELSE NoEvent

\* The other steps print no such line.
NoLog == lgEvent' = NoEvent

(***************************************************************************)
(* GetNextUpstream called again and again by one caller on a load balancer *)
(* whose health flags do not change.                                       *)
(***************************************************************************)
SelConfigs == {c \in LBConfigs : c.strategy \in {"round-robin", "weighted"}}

\* The lists getHealthyUpstreams can return: upstreams in declared order.
HealthyLists(c) ==
    {h \in UNION {[1..n -> 1..Len(c.urls)] : n \in 1..Len(c.urls)} :
        \A k \in 2..Len(h) : h[k - 1] < h[k]}

SelInputs == UNION {[cfg : {c}, healthy : HealthyLists(c)] : c \in SelConfigs}

InitSelect(inputs) ==
    /\ \E in \in inputs : selCfg = in.cfg /\ selHealthy = in.healthy
    /\ selIndex = 0
    /\ selHist = <<>>
    /\ selPanicked = FALSE

\* One call of GetNextUpstream: the strategy takes the incremented
\* currentIndex.  int(index) % totalWeight panics when the total is zero.
Select ==
    /\ ~selPanicked
    /\ LET index == selIndex + 1
           total == IF selCfg.strategy = "weighted"
                    THEN sumWeights(selCfg, selHealthy, Len(selHealthy))
                    ELSE Len(selHealthy)
       IN
        /\ selIndex < MaxCycles * total
        /\ selIndex' = index
        /\ IF selCfg.strategy = "weighted" /\ total = 0
           THEN /\ selPanicked' = TRUE
                /\ UNCHANGED selHist
           ELSE /\ selHist' = Append(selHist,
                                 IF selCfg.strategy = "weighted"
                                 THEN weighted(selCfg, selHealthy, index)
                                 ELSE roundRobin(selHealthy, index))
                /\ UNCHANGED selPanicked
    /\ UNCHANGED <<selCfg, selHealthy>>

(***************************************************************************)
(* Handler.handleStreamingGRPC: the stream is opened, the headers are      *)
(* written, one goroutine copies frames of r.Body to the stream and closes *)
(* errChan when it returns, another copies messages of the stream to w,    *)
(* and the handler waits for one value of errChan.                         *)
(***************************************************************************)
GSPumps == {"c2u", "u2c"}

\* errChan := make(chan error, 2)
GSErrChanCap == 2

NoGSObs == [delivered |-> 0, lost |-> 0, trailers |-> "none", halfClosed |-> FALSE,
            received |-> "none", failed |-> FALSE, answer |-> "none"]

GSInputs == [flusher : BOOLEAN, body : 0..MaxStreamMsgs, up : 0..MaxStreamMsgs]

InitGS(inputs) ==
    /\ gsIn \in inputs
    /\ gsPc = "start"
    /\ gsPump = [p \in GSPumps |-> "none"]
    /\ gsErr = [p \in GSPumps |-> "none"]
    /\ gsErrChan = [buf |-> <<>>, closed |-> FALSE]
    /\ gsLeft = [body |-> gsIn.body, up |-> gsIn.up]
    /\ gsObs = NoGSObs

\* A send on a closed channel panics, in a goroutine without recover: the
\* process ends.
GSAlive == \A p \in GSPumps : gsPump[p] # "panicked"

\* The handler up to errChan: no Flusher, an error of NewStream or of
\* stream.Header are answered by writeGRPCError; otherwise the headers are
\* written and the two goroutines start.
gsStart ==
    /\ gsPc = "start"
    /\ IF ~gsIn.flusher
       THEN /\ gsPc' = "done"
            /\ gsObs' = [gsObs EXCEPT !.answer = "error"]
            /\ UNCHANGED gsPump
       ELSE \/ /\ gsPc' = "done"
               /\ gsObs' = [gsObs EXCEPT !.answer = "error"]
               /\ UNCHANGED gsPump
            \/ /\ gsPc' = "wait"
               /\ gsObs' = [gsObs EXCEPT !.answer = "headers"]
               /\ gsPump' = [p \in GSPumps |-> "read"]
    /\ UNCHANGED <<gsIn, gsErr, gsErrChan, gsLeft>>

\* Client to upstream, readGRPCFrame(r.Body): a frame; io.EOF, answered by
\* stream.CloseSend and return; or an error, which a broken body gives at
\* any time and a body closed by the returned handler gives always.
gsClientRead ==
    /\ GSAlive
    /\ gsPump["c2u"] = "read"
    /\ \/ /\ gsPc = "wait"
          /\ gsLeft.body > 0
          /\ gsLeft' = [gsLeft EXCEPT !.body = @ - 1]
          /\ gsPump' = [gsPump EXCEPT !["c2u"] = "write"]
          /\ UNCHANGED <<gsErr, gsObs>>
       \/ /\ gsPc = "wait"
          /\ gsLeft.body = 0
          /\ gsObs' = [gsObs EXCEPT !.halfClosed = TRUE]
          /\ gsPump' = [gsPump EXCEPT !["c2u"] = "closing"]
          /\ UNCHANGED <<gsErr, gsLeft>>
       \/ /\ gsErr' = [gsErr EXCEPT !["c2u"] = "readError"]
          /\ gsObs' = [gsObs EXCEPT !.failed = TRUE]
          /\ gsPump' = [gsPump EXCEPT !["c2u"] = "report"]
          /\ UNCHANGED gsLeft
    /\ UNCHANGED <<gsIn, gsPc, gsErrChan>>

\* Client to upstream, stream.SendMsg(frame): it fails once the handler has
\* returned (its context is cancelled) and may fail before.
gsClientSend ==
    /\ GSAlive
    /\ gsPump["c2u"] = "write"
    /\ \/ /\ gsPc = "wait"
          /\ gsPump' = [gsPump EXCEPT !["c2u"] = "read"]
          /\ UNCHANGED <<gsErr, gsObs>>
       \/ /\ gsErr' = [gsErr EXCEPT !["c2u"] = "sendError"]
          /\ gsObs' = [gsObs EXCEPT !.failed = TRUE]
          /\ gsPump' = [gsPump EXCEPT !["c2u"] = "report"]
    /\ UNCHANGED <<gsIn, gsPc, gsErrChan, gsLeft>>

\* Upstream to client, stream.RecvMsg: a message; io.EOF, on which the
\* trailers are written and nil is to be sent; or an error, which the
\* stream gives once the handler has returned and may give before.
gsUpstreamRecv ==
    /\ GSAlive
    /\ gsPump["u2c"] = "read"
    /\ \/ /\ gsPc = "wait"
          /\ gsLeft.up > 0
          /\ gsLeft' = [gsLeft EXCEPT !.up = @ - 1]
          /\ gsPump' = [gsPump EXCEPT !["u2c"] = "write"]
          /\ UNCHANGED <<gsErr, gsObs>>
       \/ /\ gsPc = "wait"
          /\ gsLeft.up = 0
          /\ gsObs' = [gsObs EXCEPT !.trailers = "forwarded"]
          /\ gsErr' = [gsErr EXCEPT !["u2c"] = "nil"]
          /\ gsPump' = [gsPump EXCEPT !["u2c"] = "report"]
          /\ UNCHANGED gsLeft
       \/ /\ gsErr' = [gsErr EXCEPT !["u2c"] = "recvError"]
          /\ gsObs' = [gsObs EXCEPT !.failed = TRUE]
          /\ gsPump' = [gsPump EXCEPT !["u2c"] = "report"]
          /\ UNCHANGED gsLeft
    /\ UNCHANGED <<gsIn, gsPc, gsErrChan>>

\* Upstream to client, writeGRPCFrame(w, frame) and Flush: the frame reaches
\* the client while the handler has not returned; afterwards the response
\* is finished and the frame is lost.  A failed write is to be sent on
\* errChan.
gsUpstreamWrite ==
    /\ GSAlive
    /\ gsPump["u2c"] = "write"
    /\ \/ /\ gsObs' = IF gsPc = "wait" THEN [gsObs EXCEPT !.delivered = @ + 1]
                      ELSE [gsObs EXCEPT !.lost = @ + 1]
          /\ gsPump' = [gsPump EXCEPT !["u2c"] = "read"]
          /\ UNCHANGED gsErr
       \/ /\ gsErr' = [gsErr EXCEPT !["u2c"] = "writeError"]
          /\ gsObs' = [gsObs EXCEPT !.failed = TRUE]
          /\ gsPump' = [gsPump EXCEPT !["u2c"] = "report"]
    /\ UNCHANGED <<gsIn, gsPc, gsErrChan, gsLeft>>

\* errChan <- err of either goroutine: a panic when errChan is closed, a
\* wait while its buffer is full.  The upstream-to-client goroutine returns
\* after it; the client-to-upstream goroutine goes on to its deferred close.
gsReport(p) ==
    /\ GSAlive
    /\ gsPump[p] = "report"
    /\ IF gsErrChan.closed
       THEN /\ gsPump' = [gsPump EXCEPT ![p] = "panicked"]
            /\ UNCHANGED gsErrChan
       ELSE /\ Len(gsErrChan.buf) < GSErrChanCap
            /\ gsErrChan' = [gsErrChan EXCEPT !.buf = Append(@, gsErr[p])]
            /\ gsPump' = [gsPump EXCEPT ![p] = IF p = "c2u" THEN "closing" ELSE "done"]
    /\ UNCHANGED <<gsIn, gsPc, gsErr, gsLeft, gsObs>>

\* defer close(errChan) of the client-to-upstream goroutine.
gsClose ==
    /\ GSAlive
    /\ gsPump["c2u"] = "closing"
    /\ gsErrChan' = [gsErrChan EXCEPT !.closed = TRUE]
    /\ gsPump' = [gsPump EXCEPT !["c2u"] = "done"]
    /\ UNCHANGED <<gsIn, gsPc, gsErr, gsLeft, gsObs>>

\* if err := <-errChan; err != nil { writeGRPCError }: a value of the
\* buffer, or nil at once when errChan is closed and empty.  The handler
\* returns, and its request context and body end with it.
gsWait ==
    /\ GSAlive
    /\ gsPc = "wait"
    /\ \/ /\ gsErrChan.buf # <<>>
          /\ gsObs' = [gsObs EXCEPT !.received = Head(gsErrChan.buf),
                                    !.answer = IF Head(gsErrChan.buf) = "nil"
                                               THEN @ ELSE "error"]
          /\ gsErrChan' = [gsErrChan EXCEPT !.buf = Tail(@)]
       \/ /\ gsErrChan.buf = <<>>
          /\ gsErrChan.closed
          /\ gsObs' = [gsObs EXCEPT !.received = "closed"]
          /\ UNCHANGED gsErrChan
    /\ gsPc' = "done"
    /\ UNCHANGED <<gsIn, gsPump, gsErr, gsLeft>>

vars == <<cbVars, lbVars, pipeVars, rlVars, srvVars, azVars, rtVars, extVars>>

\* Each specification explores the configurations of one component and holds
\* the other components at a single configuration, in their initial state.
OneCBConfig == [maxFailures |-> 1, resetTimeout |-> 1, halfOpenMaxReqs |-> 1]
OneLBConfig == [urls |-> <<1>>, weights |-> <<0>>, strategy |-> "round-robin"]
OnePipeConfig == [auth |-> "none", rateLimit |-> "off", circuitBreaker |-> FALSE,
                  cache |-> FALSE, transform |-> FALSE, protocol |-> "http",
                  loadBalanced |-> FALSE, burst |-> 0, rps |-> 0, ttl |-> 0]
OneRLConfig == [s \in Scopes |-> [rps |-> 1, burst |-> 1]]
OneAuthzInput ==
    [method |-> "GET",
     authCtx |-> [Authenticated |-> TRUE, IdentityType |-> "user", Roles |-> <<>>,
                  Scopes |-> <<>>],
     routeAuth |-> [AllowedRoles |-> <<>>, RequiredScopes |-> <<>>, Permissions |-> <<>>]]

OneRouteList == <<[pattern |-> [class |-> "wildcard", segs |-> <<"api">>], methods |-> {}]>>
OnePath == [segs |-> <<"api", "users">>, slash |-> FALSE]
OneLifeConfig == <<1>>
OneWSInput == [hijacker |-> FALSE]
OneScopeInput == [userScopes |-> <<>>, requiredScopes |-> <<>>]
OneJWTInput == [header |-> "absent", alg |-> "HS256", signedWith |-> "shared", exp |-> "absent",
                roles |-> 0, ExpiryCheck |-> FALSE, ValidateRoles |-> FALSE]
OneFrameStream == <<0, 0, 0, 0, 0>>
OneGSInput == [flusher |-> FALSE, body |-> 0, up |-> 0]
OneSelInput == [cfg |-> OneLBConfig, healthy |-> <<1>>]
OneFwdInput == [route |-> [protocol |-> "http", upstreams |-> 1, loadBalancing |-> FALSE,
                           reachable |-> TRUE],
                req |-> [upgrade |-> FALSE, grpc |-> "unary"]]
OneKeyInput == [by |-> "ip",
                reqs |-> [i \in 1..2 |-> [authType |-> "api_key", client |-> "c1",
                                          sentClientID |-> "", host |-> "10.0.0.1",
                                          port |-> "7"]]]
OneTransformInput ==
    [kind |-> "request", AddHeaders |-> [k \in TransformKeys |-> ""], RemoveHeaders |-> {},
     RemoteAddr |-> "10.0.0.1:5", headers |-> [k \in TransformKeys |-> ""]]
InitExt == InitLife({OneLifeConfig}) /\ InitWS({OneWSInput}) /\ InitScopes({OneScopeInput})
           /\ InitJWT({OneJWTInput}) /\ InitTransform({OneTransformInput})
           /\ InitFrames({OneFrameStream}) /\ InitGS({OneGSInput})
           /\ InitSelect({OneSelInput}) /\ InitLog /\ InitKeys({OneKeyInput}) /\ InitLocks /\ InitFwd({OneFwdInput})
InitIdle == InitSrv /\ InitAuthz({OneAuthzInput}) /\ InitRoute({OneRouteList}, {OnePath})
            /\ InitExt
InitRest == InitRL({OneRLConfig}) /\ InitIdle
InitSpecCB == InitCB(CBConfigs) /\ InitLB({OneLBConfig}) /\ InitPipe({OnePipeConfig}) /\ InitRest
InitSpecLB == InitCB({OneCBConfig}) /\ InitLB(LBConfigs) /\ InitPipe({OnePipeConfig}) /\ InitRest
InitSpecPipe == InitCB({OneCBConfig}) /\ InitLB({OneLBConfig}) /\ InitPipe(PipeConfigs) /\ InitRest
InitSpecRL == InitCB({OneCBConfig}) /\ InitLB({OneLBConfig}) /\ InitPipe({OnePipeConfig})
              /\ InitRL(RLConfigs) /\ InitIdle
InitSpecAuthz == InitCB({OneCBConfig}) /\ InitLB({OneLBConfig}) /\ InitPipe({OnePipeConfig})
                 /\ InitRL({OneRLConfig}) /\ InitSrv /\ InitAuthz(AuthzInputs)
                 /\ InitRoute({OneRouteList}, {OnePath}) /\ InitExt
InitSpecRoute == InitCB({OneCBConfig}) /\ InitLB({OneLBConfig}) /\ InitPipe({OnePipeConfig})
                 /\ InitRL({OneRLConfig}) /\ InitSrv /\ InitAuthz({OneAuthzInput})
                 /\ InitRoute(RouteLists, RequestPaths) /\ InitExt
InitSpecReload == InitCB(CBConfigs) /\ InitLB({OneLBConfig}) /\ InitPipe(ReloadConfigs)
                  /\ InitRest

\* What the steps of one component leave alone.
CBFrame == UNCHANGED <<lbVars, pipeVars, rlVars, srvVars, azVars, rtVars, extVars>>
LBFrame == UNCHANGED <<cbVars, pipeVars, rlVars, srvVars, azVars, rtVars, extVars>>
PipeFrame == UNCHANGED <<cbCfg, cbPc, cbResp, cbObs, lbVars, rlVars, srvVars, azVars, rtVars,
                         extVars>>
RLFrame == UNCHANGED <<cbVars, lbVars, pipeVars, srvVars, azVars, rtVars, extVars>>
AuthzFrame == UNCHANGED <<cbVars, lbVars, pipeVars, rlVars, srvVars, rtVars, extVars>>
RouteFrame == UNCHANGED <<cbVars, lbVars, pipeVars, rlVars, srvVars, azVars, extVars>>

NextCB ==
    \/ \E t \in Threads : canExecute(t) /\ CBFrame
    \/ \E t \in Threads : canExecuteUpgrade(t) /\ CBFrame
    \/ \E t \in Threads : canExecuteReturn(t) /\ CBFrame
    \/ \E t \in Threads : cbReject(t) /\ CBFrame
    \/ \E t \in Threads : cbInner(t) /\ CBFrame
    \/ \E t \in Threads : cbRecord(t) /\ CBFrame
    \/ Tick /\ CBFrame

SpecCB == InitSpecCB /\ [][NextCB]_vars

NextLB ==
    \/ \E t \in LBThreads : GetNextUpstream(t) /\ LBFrame
    \/ \E t \in LBThreads : getHealthyUpstreams(t) /\ LBFrame
    \/ \E t \in LBThreads : selectUpstream(t) /\ LBFrame
    \/ \E t \in LBThreads : RecordFailure(t) /\ LBFrame
    \/ \E t \in LBThreads : RecordFailureMark(t) /\ LBFrame
    \/ \E t \in LBThreads : RecordSuccess(t) /\ LBFrame
    \/ \E t \in LBThreads : RecordSuccessMark(t) /\ LBFrame
    \/ \E t \in LBThreads : ReleaseConnection(t) /\ LBFrame
    \/ \E k \in 1..NumUpstreams : markHealthy(k) /\ LBFrame
    \/ \E k \in 1..NumUpstreams : markUnhealthy(k) /\ LBFrame

SpecLB == InitSpecLB /\ [][NextLB]_vars

NextPipe ==
    \/ pipeStart /\ PipeFrame
    \/ pipeAuth /\ PipeFrame
    \/ pipeRateLimit /\ PipeFrame
    \/ pipeCircuitBreaker /\ PipeFrame
    \/ pipeCache /\ PipeFrame
    \/ pipeTransform /\ PipeFrame
    \/ pipeForward /\ PipeFrame
    \/ pipeReturn /\ PipeFrame
    \/ Tick /\ UNCHANGED <<lbVars, pipeVars, rlVars, srvVars, azVars, rtVars, extVars>>

SpecPipe == InitSpecPipe /\ [][NextPipe]_vars

NextRL ==
    \/ \E t \in Threads : RateLimit(t) /\ RLFrame
    \/ \E t \in Threads : getLimiter(t) /\ RLFrame
    \/ \E t \in Threads : Allow(t) /\ RLFrame
    \/ Tick /\ UNCHANGED <<lbVars, pipeVars, rlVars, srvVars, azVars, rtVars, extVars>>

SpecRL == InitSpecRL /\ [][NextRL]_vars

NextReload ==
    \/ pipeStart /\ PipeFrame
    \/ pipeCircuitBreaker /\ PipeFrame
    \/ pipeCache /\ PipeFrame
    \/ pipeForward /\ PipeFrame
    \/ pipeReturn /\ PipeFrame
    \/ Tick /\ UNCHANGED <<lbVars, pipeVars, rlVars, srvVars, azVars, rtVars, extVars>>
    \/ Reload

SpecReload == InitSpecReload /\ [][NextReload]_vars

\* A route with a cache inside a circuit breaker, the breaker with any
\* configuration, the cache with a TTL up to the whole time of the model.
HitConfigs ==
    {[c EXCEPT !.ttl = ttl] : c \in {r \in ReloadConfigs : r.cache /\ r.circuitBreaker},
                              ttl \in 1..MaxTime}

InitSpecHit == InitCB(CBConfigs) /\ InitLB({OneLBConfig}) /\ InitPipe(HitConfigs) /\ InitRest

NextHit ==
    \/ pipeStartUpTo(MaxHitRequests) /\ PipeFrame
    \/ pipeCircuitBreaker /\ PipeFrame
    \/ pipeCache /\ PipeFrame
    \/ pipeForward /\ PipeFrame
    \/ pipeReturn /\ PipeFrame
    \/ Tick /\ UNCHANGED <<lbVars, pipeVars, rlVars, srvVars, azVars, rtVars, extVars>>

SpecHit == InitSpecHit /\ [][NextHit]_vars

NextAuthz == Authorize /\ AuthzFrame

SpecAuthz == InitSpecAuthz /\ [][NextAuthz]_vars

NextRoute == ServeHTTP /\ RouteFrame

SpecRoute == InitSpecRoute /\ [][NextRoute]_vars

InitBase == InitCB({OneCBConfig}) /\ InitLB({OneLBConfig}) /\ InitPipe({OnePipeConfig})
            /\ InitRL({OneRLConfig}) /\ InitSrv /\ InitAuthz({OneAuthzInput})
            /\ InitRoute({OneRouteList}, {OnePath})
BaseVars == <<cbVars, lbVars, pipeVars, rlVars, srvVars, azVars, rtVars>>

InitSpecLife == InitBase /\ InitLife(LifeConfigs) /\ InitWS({OneWSInput})
                /\ InitScopes({OneScopeInput}) /\ InitJWT({OneJWTInput})
                /\ InitTransform({OneTransformInput}) /\ InitFrames({OneFrameStream})
                /\ InitGS({OneGSInput})
                /\ InitSelect({OneSelInput})
                /\ InitLog /\ InitKeys({OneKeyInput})
    /\ InitLocks
    /\ InitFwd({OneFwdInput})
LifeFrame == UNCHANGED <<BaseVars, wsVars, scVars, jwtVars, trVars, frVars, gsVars, selVars,
    lgVars, kyVars,
    lkVars,
    fwVars>>

MaxLBs == MaxLBRoutes * (MaxReloads + 1)

NextLife ==
    \/ ReloadHandlers /\ LifeFrame
    \/ \E k \in 1..Len(lifeLBs) : healthCheckLoop(k) /\ LifeFrame
    \/ \E k \in 1..Len(lifeLBs) : checkUpstreamHealth(k) /\ LifeFrame
    \/ Shutdown /\ LifeFrame
    \/ mainReturns /\ LifeFrame

\* The scheduler runs every goroutine that can take a step, and main returns
\* once Start has; a reload and the shutdown signal come from outside.
LifeFairness ==
    /\ \A k \in 1..MaxLBs :
        /\ WF_vars(k <= Len(lifeLBs) /\ healthCheckLoop(k) /\ LifeFrame)
        /\ WF_vars(k <= Len(lifeLBs) /\ checkUpstreamHealth(k) /\ LifeFrame)
    /\ WF_vars(mainReturns /\ LifeFrame)

SpecLife == InitSpecLife /\ [][NextLife]_vars /\ LifeFairness

WSInputs == [hijacker : BOOLEAN]
InitSpecWS == InitBase /\ InitLife({OneLifeConfig}) /\ InitWS(WSInputs)
              /\ InitScopes({OneScopeInput}) /\ InitJWT({OneJWTInput})
              /\ InitTransform({OneTransformInput}) /\ InitFrames({OneFrameStream})
              /\ InitGS({OneGSInput})
              /\ InitSelect({OneSelInput})
              /\ InitLog /\ InitKeys({OneKeyInput})
    /\ InitLocks
    /\ InitFwd({OneFwdInput})
WSFrame == UNCHANGED <<BaseVars, lifeVars, scVars, jwtVars, trVars, frVars, gsVars, selVars,
    lgVars, kyVars,
    lkVars,
    fwVars>>

NextWS ==
    \/ wsDial /\ WSFrame
    \/ wsUpgrade /\ WSFrame
    \/ \E side \in Sides : wsPeerSends(side) /\ WSFrame
    \/ \E side \in Sides : wsPeerCloses(side) /\ WSFrame
    \/ \E p \in Pumps : wsPumpRead(p) /\ WSFrame
    \/ \E p \in Pumps : wsPumpWrite(p) /\ WSFrame
    \/ \E p \in Pumps : wsPumpSend(p) /\ WSFrame
    \/ wsWait /\ WSFrame

\* The scheduler runs the handler and each pump whenever it can take a step;
\* what the peers do is not constrained.
WSFairness ==
    /\ WF_vars(wsWait /\ WSFrame)
    /\ \A p \in Pumps :
        /\ WF_vars(wsPumpRead(p) /\ WSFrame)
        /\ WF_vars(wsPumpWrite(p) /\ WSFrame)
        /\ WF_vars(wsPumpSend(p) /\ WSFrame)

SpecWS == InitSpecWS /\ [][NextWS]_vars /\ WSFairness

InitSpecScopes == InitBase /\ InitLife({OneLifeConfig}) /\ InitWS({OneWSInput})
                  /\ InitScopes(ScopeInputs) /\ InitJWT({OneJWTInput})
                  /\ InitTransform({OneTransformInput}) /\ InitFrames({OneFrameStream})
                  /\ InitGS({OneGSInput})
                  /\ InitSelect({OneSelInput})
                  /\ InitLog /\ InitKeys({OneKeyInput})
    /\ InitLocks
    /\ InitFwd({OneFwdInput})
ScopesFrame == UNCHANGED <<BaseVars, lifeVars, wsVars, jwtVars, trVars, frVars, gsVars, selVars,
    lgVars, kyVars,
    lkVars,
    fwVars>>

NextScopes == CheckScopes /\ ScopesFrame

SpecScopes == InitSpecScopes /\ [][NextScopes]_vars

InitSpecJWT == InitBase /\ InitLife({OneLifeConfig}) /\ InitWS({OneWSInput})
               /\ InitScopes({OneScopeInput}) /\ InitJWT(JWTInputs)
               /\ InitTransform({OneTransformInput}) /\ InitFrames({OneFrameStream})
               /\ InitGS({OneGSInput})
               /\ InitSelect({OneSelInput})
               /\ InitLog /\ InitKeys({OneKeyInput})
    /\ InitLocks
    /\ InitFwd({OneFwdInput})
JWTFrame == UNCHANGED <<BaseVars, lifeVars, wsVars, scVars, trVars, frVars, gsVars, selVars,
    lgVars, kyVars,
    lkVars,
    fwVars>>

NextJWT == Authenticate /\ JWTFrame

SpecJWT == InitSpecJWT /\ [][NextJWT]_vars

InitSpecTransform == InitBase /\ InitLife({OneLifeConfig}) /\ InitWS({OneWSInput})
                     /\ InitScopes({OneScopeInput}) /\ InitJWT({OneJWTInput})
                     /\ InitTransform(TransformInputs) /\ InitFrames({OneFrameStream})
                     /\ InitGS({OneGSInput})
                     /\ InitSelect({OneSelInput})
                     /\ InitLog /\ InitKeys({OneKeyInput})
    /\ InitLocks
    /\ InitFwd({OneFwdInput})
TransformFrame == UNCHANGED <<BaseVars, lifeVars, wsVars, scVars, jwtVars, frVars, gsVars, selVars,
    lgVars, kyVars,
    lkVars,
    fwVars>>

NextTransform ==
    \/ Transform /\ TransformFrame
    \/ Tick /\ UNCHANGED <<lbVars, pipeVars, rlVars, srvVars, azVars, rtVars, extVars>>

SpecTransform == InitSpecTransform /\ [][NextTransform]_vars

InitSpecFrames == InitBase /\ InitLife({OneLifeConfig}) /\ InitWS({OneWSInput})
                  /\ InitScopes({OneScopeInput}) /\ InitJWT({OneJWTInput})
                  /\ InitTransform({OneTransformInput}) /\ InitFrames(FrameStreams)
                  /\ InitGS({OneGSInput})
                  /\ InitSelect({OneSelInput})
                  /\ InitLog /\ InitKeys({OneKeyInput})
    /\ InitLocks
    /\ InitFwd({OneFwdInput})
FramesFrame == UNCHANGED <<BaseVars, lifeVars, wsVars, scVars, jwtVars, trVars, gsVars, selVars,
    lgVars, kyVars,
    lkVars,
    fwVars>>

NextFrames == CopyFrame /\ FramesFrame

SpecFrames == InitSpecFrames /\ [][NextFrames]_vars

InitSpecStream == InitBase /\ InitLife({OneLifeConfig}) /\ InitWS({OneWSInput})
                  /\ InitScopes({OneScopeInput}) /\ InitJWT({OneJWTInput})
                  /\ InitTransform({OneTransformInput}) /\ InitFrames({OneFrameStream})
                  /\ InitGS(GSInputs)
                  /\ InitSelect({OneSelInput})
                  /\ InitLog /\ InitKeys({OneKeyInput})
    /\ InitLocks
    /\ InitFwd({OneFwdInput})
StreamFrame == UNCHANGED <<BaseVars, lifeVars, wsVars, scVars, jwtVars, trVars, frVars, selVars,
    lgVars, kyVars,
    lkVars,
    fwVars>>

NextStream ==
    \/ gsStart /\ StreamFrame
    \/ gsClientRead /\ StreamFrame
    \/ gsClientSend /\ StreamFrame
    \/ gsUpstreamRecv /\ StreamFrame
    \/ gsUpstreamWrite /\ StreamFrame
    \/ \E p \in GSPumps : gsReport(p) /\ StreamFrame
    \/ gsClose /\ StreamFrame
    \/ gsWait /\ StreamFrame

SpecStream == InitSpecStream /\ [][NextStream]_vars

InitSpecSelect == InitBase /\ InitLife({OneLifeConfig}) /\ InitWS({OneWSInput})
                  /\ InitScopes({OneScopeInput}) /\ InitJWT({OneJWTInput})
                  /\ InitTransform({OneTransformInput}) /\ InitFrames({OneFrameStream})
                  /\ InitGS({OneGSInput}) /\ InitSelect(SelInputs)
                  /\ InitLog /\ InitKeys({OneKeyInput})
    /\ InitLocks
    /\ InitFwd({OneFwdInput})
SelectFrame == UNCHANGED <<BaseVars, lifeVars, wsVars, scVars, jwtVars, trVars, frVars, gsVars,
    lgVars, kyVars,
    lkVars,
    fwVars>>

NextSelect ==
    \/ Select /\ SelectFrame

SpecSelect == InitSpecSelect /\ [][NextSelect]_vars

\* Load balancers with the round-robin strategy, their log lines observed.
HealthLBConfigs == {c \in LBConfigs : c.strategy = "round-robin"}

InitSpecHealth == InitCB({OneCBConfig}) /\ InitLB(HealthLBConfigs) /\ InitPipe({OnePipeConfig})
                  /\ InitRest
HealthFrame == UNCHANGED <<cbVars, pipeVars, rlVars, srvVars, azVars, rtVars, lifeVars, wsVars,
                           scVars, jwtVars, trVars, frVars, gsVars, selVars, kyVars,
    lkVars,
    fwVars>>

NextHealth ==
    \/ \E t \in LBThreads : GetNextUpstream(t) /\ NoLog /\ HealthFrame
    \/ \E t \in LBThreads : getHealthyUpstreams(t) /\ NoLog /\ HealthFrame
    \/ \E t \in LBThreads : selectUpstream(t) /\ NoLog /\ HealthFrame
    \/ \E t \in LBThreads : RecordFailure(t) /\ NoLog /\ HealthFrame
    \/ \E t \in LBThreads : RecordFailureMark(t) /\ RecordFailureLog(t) /\ HealthFrame
    \/ \E t \in LBThreads : RecordSuccess(t) /\ NoLog /\ HealthFrame
    \/ \E t \in LBThreads : RecordSuccessMark(t) /\ RecordSuccessLog(t) /\ HealthFrame
    \/ \E t \in LBThreads : ReleaseConnection(t) /\ NoLog /\ HealthFrame
    \/ \E k \in 1..NumUpstreams : markHealthy(k) /\ markHealthyLog(k) /\ HealthFrame
    \/ \E k \in 1..NumUpstreams : markUnhealthy(k) /\ markUnhealthyLog(k) /\ HealthFrame

SpecHealth == InitSpecHealth /\ [][NextHealth]_vars

InitSpecKeys == InitBase /\ InitLife({OneLifeConfig}) /\ InitWS({OneWSInput})
                /\ InitScopes({OneScopeInput}) /\ InitJWT({OneJWTInput})
                /\ InitTransform({OneTransformInput}) /\ InitFrames({OneFrameStream})
                /\ InitGS({OneGSInput}) /\ InitSelect({OneSelInput}) /\ InitLog
                /\ InitKeys(KeyInputs)
    /\ InitLocks
    /\ InitFwd({OneFwdInput})
KeysFrame == UNCHANGED <<BaseVars, lifeVars, wsVars, scVars, jwtVars, trVars, frVars, gsVars,
                         selVars, lgVars,
    lkVars,
    fwVars>>

NextKeys ==
    \/ RateLimitKeys /\ KeysFrame

SpecKeys == InitSpecKeys /\ [][NextKeys]_vars

InitSpecLocks == InitBase /\ InitLife({OneLifeConfig}) /\ InitWS({OneWSInput})
                 /\ InitScopes({OneScopeInput}) /\ InitJWT({OneJWTInput})
                 /\ InitTransform({OneTransformInput}) /\ InitFrames({OneFrameStream})
                 /\ InitGS({OneGSInput}) /\ InitSelect({OneSelInput}) /\ InitLog
                 /\ InitKeys({OneKeyInput}) /\ InitLocks
    /\ InitFwd({OneFwdInput})
LocksFrame == UNCHANGED <<BaseVars, lifeVars, wsVars, scVars, jwtVars, trVars, frVars, gsVars,
                          selVars, lgVars, kyVars,
    fwVars>>

NextLocks ==
    \/ \E t \in LockThreads : lkCall(t) /\ LocksFrame
    \/ \E t \in LockThreads : lkRLock(t) /\ LocksFrame
    \/ \E t \in LockThreads : lkRUnlock(t) /\ LocksFrame
    \/ \E t \in LockThreads : lkLockAnnounce(t) /\ LocksFrame
    \/ \E t \in LockThreads : lkLockAcquire(t) /\ LocksFrame
    \/ \E t \in LockThreads : lkUnlock(t) /\ LocksFrame
    \/ \E t \in LockThreads : lkReturn(t) /\ LocksFrame

SpecLocks == InitSpecLocks /\ [][NextLocks]_vars

InitSpecFwd == InitBase /\ InitLife({OneLifeConfig}) /\ InitWS({OneWSInput})
               /\ InitScopes({OneScopeInput}) /\ InitJWT({OneJWTInput})
               /\ InitTransform({OneTransformInput}) /\ InitFrames({OneFrameStream})
               /\ InitGS({OneGSInput}) /\ InitSelect({OneSelInput}) /\ InitLog
               /\ InitKeys({OneKeyInput}) /\ InitLocks /\ InitFwd(FwdInputs)
FwdFrame == UNCHANGED <<BaseVars, lifeVars, wsVars, scVars, jwtVars, trVars, frVars, gsVars,
                        selVars, lgVars, kyVars, lkVars>>

NextFwd ==
    \/ fwNewHandler /\ FwdFrame
    \/ fwServeHTTP /\ FwdFrame

SpecFwd == InitSpecFwd /\ [][NextFwd]_vars

(***************************************************************************)
(* Claims about the circuit breaker, checked under SpecCB.                 *)
(***************************************************************************)
\* Steps of goroutine t, recognised by its position before and after.
CBArrives(t) == cbPc[t] = "idle" /\ cbPc'[t] # "idle"
CBAdmitted(t) == cbPc[t] \in {"idle", "relock"} /\ cbPc'[t] = "inner"
CBRecords(t) == cbPc[t] = "record" /\ cbPc'[t] = "idle"
CBUpgrades(t) == cbPc[t] = "upgrade" /\ cbPc'[t] = "relock"

\* C1: under any interleaving of canExecute and recordResult, whenever
\* canExecute returns true to a request the breaker is not Open at that
\* moment (an admission that started in Open is returned in HalfOpen).
C1_NoAdmissionWhileOpen ==
    [][\A t \in Threads : CBAdmitted(t) => cb.state # StateOpen]_vars

\* C4: the breaker starts Closed with failures = 0; in Closed every request
\* is admitted, a recorded failure increments failures and sets
\* lastFailureTime to the current time, a recorded success resets failures to
\* 0, and the breaker goes from Closed to Open exactly when a recorded
\* failure brings failures to maxFailures; a request arriving in Open before
\* the reset timeout is rejected (503).
C4_ClosedStep ==
    \A t \in Threads :
        /\ (cb.state = StateClosed /\ CBArrives(t)) => cbPc'[t] = "inner"
        /\ (cb.state = StateClosed /\ CBRecords(t) /\ cbResp[t] >= 500) =>
                /\ cb'.failures = cb.failures + 1
                /\ cb'.lastFailureTime = now
                /\ cb'.state = IF cb'.failures >= cbCfg.maxFailures
                               THEN StateOpen ELSE StateClosed
        /\ (cb.state = StateClosed /\ CBRecords(t) /\ cbResp[t] < 500) =>
                /\ cb'.failures = 0
                /\ cb'.state = StateClosed
        /\ (cb.state = StateClosed /\ cb'.state = StateOpen) =>
                /\ cb'.failures = cbCfg.maxFailures
                /\ \E u \in Threads : CBRecords(u) /\ cbResp[u] >= 500
        /\ (cb.state = StateOpen /\ CBArrives(t)
              /\ now - cb.lastFailureTime < cbCfg.resetTimeout) =>
                cbPc'[t] = "rejected"

C4_ClosedBehaviour ==
    /\ cb.state = StateClosed /\ cb.failures = 0
    /\ [][C4_ClosedStep]_vars

\* Witness of C4: maxFailures = 3, three failures were recorded, the breaker
\* is Open and the next request is being answered 503.
C4_Witness ==
    /\ cbCfg.maxFailures = 3
    /\ cb.state = StateOpen
    /\ cb.failures = 3
    /\ \E t \in Threads : cbPc[t] = "rejected"

\* C5: a request arriving in Open is rejected while
\* now - lastFailureTime < resetTimeout, and the check of the timeout and the
\* move to HalfOpen are one atomic action: the breaker is moved to HalfOpen
\* only from Open, only when the reset timeout has elapsed since the last
\* failure, and with successCount = 0.
C5_AtomicHalfOpenTransition ==
    [][\A t \in Threads :
        /\ (cb.state = StateOpen /\ CBArrives(t)
              /\ now - cb.lastFailureTime < cbCfg.resetTimeout) =>
                cbPc'[t] = "rejected"
        /\ CBUpgrades(t) =>
                /\ cb.state = StateOpen
                /\ now - cb.lastFailureTime >= cbCfg.resetTimeout
                /\ cb'.state = StateHalfOpen
                /\ cb'.successCount = 0]_vars

\* C6: while the breaker is HalfOpen, the requests admitted in the current
\* half-open window and still in flight number at most halfOpenMaxReqs.
C6_HalfOpenAdmissionsBounded ==
    cb.state = StateHalfOpen =>
        Cardinality(cbObs.admitted \cap {t \in Threads : cbPc[t] \in {"inner", "record"}})
            <= cbCfg.halfOpenMaxReqs

\* C7: in HalfOpen a recorded failure moves the breaker to Open, a recorded
\* success moves it to Closed (failures reset to 0) exactly when the
\* successes recorded in the current half-open window reach halfOpenMaxReqs,
\* and no other step leaves HalfOpen.
C7_HalfOpenTransitions ==
    [][cb.state = StateHalfOpen =>
        /\ \A t \in Threads :
            /\ (CBRecords(t) /\ cbResp[t] >= 500) => cb'.state = StateOpen
            /\ (CBRecords(t) /\ cbResp[t] < 500) =>
                    /\ cb'.state = IF cbObs.successes + 1 >= cbCfg.halfOpenMaxReqs
                                   THEN StateClosed ELSE StateHalfOpen
                    /\ cb'.state = StateClosed => cb'.failures = 0
        /\ (\A t \in Threads : ~CBRecords(t)) => cb'.state = StateHalfOpen]_vars

(***************************************************************************)
(* Load balancer claims, checked under SpecLB.                             *)
(***************************************************************************)
LBSelects(t) == lbPc[t] = "select" /\ lbPc'[t] \in {"proxy", "release"}
LBSelectFails(t) == lbPc[t] = "select" /\ lbPc'[t] = "idle"

\* C33: a request rejected by the circuit breaker with 503 leaves the breaker
\* unchanged: state, failure count, time of the last failure and half-open
\* success count are the same after each of its steps as before, and no
\* outcome is recorded for it.
C33_Step ==
    \A t \in Threads :
        (cbPc'[t] # cbPc[t] /\ (cbPc'[t] = "rejected" \/ cbPc[t] = "rejected")) =>
            /\ cb' = cb
            /\ cbObs' = cbObs
            /\ cbPc'[t] \in {"rejected", "idle"}

C33_RejectionLeavesBreaker == [][C33_Step]_vars

C33_Witness ==
    \E t \in Threads :
        /\ cbPc[t] = "rejected"
        /\ cb.state = StateOpen
        /\ cb.failures > 0

\* C2: the active connection count of every upstream is never negative,
\* whatever the accepted upstream list and however the selections and
\* releases of HTTP and WebSocket requests interleave.
C2_ActiveConnsNonNegative ==
    \A k \in 1..NumUpstreams : lbUp[k].ActiveConns >= 0

\* C32: every successful selection is matched by exactly one release applied
\* to the upstream that was selected, so whenever no request is in flight
\* every upstream's active connection count is 0.
C32_ReleaseMatchesSelection ==
    (\A t \in LBThreads : lbPc[t] = "idle") =>
        \A k \in 1..NumUpstreams : lbUp[k].ActiveConns = 0

\* The host of an address "host:port" or "host": the characters before the
\* first ":" (58).
HostOf(addr) ==
    IF \E i \in 1..Len(addr) : addr[i] = 58
    THEN SubSeq(addr, 1, (CHOOSE i \in 1..Len(addr) :
                            addr[i] = 58 /\ \A j \in 1..(i - 1) : addr[j] # 58) - 1)
    ELSE addr

\* C37: with strategy ip-hash the selection is healthy[hash(client_ip) mod N]
\* for the client's IP address: it depends neither on the client's source
\* port nor on whether the request is plain HTTP or a WebSocket upgrade.
C37_Step ==
    \A t \in LBThreads :
        (/\ lbCfg.strategy = "ip-hash"
         /\ lbPc[t] = "select" /\ lbPc'[t] # "select"
         /\ lbLoc'[t].sel # 0)
        => lbLoc'[t].sel = ipHash(healthyOrAll(lbCfg, lbLoc[t].healthy),
                                  HostOf(lbLoc[t].clientIP))

C37_SelectionByIPOnly == [][C37_Step]_vars

\* C8 as stated: whenever GetNextUpstream returns while at least one upstream
\* is healthy, the upstream it returns is healthy.
C8_ReturnsHealthyAtReturn ==
    [][\A t \in LBThreads :
        (LBSelects(t) /\ \E k \in 1..NumUpstreams : lbUp[k].Healthy)
            => lbUp[lbLoc'[t].sel].Healthy]_vars

\* C8 amended: GetNextUpstream returns an upstream that it read as healthy
\* during the call when it read at least one as healthy, an upstream of the
\* full set when it read none as healthy, and never an error.
C8_ReturnsUpstreamReadHealthy ==
    [][\A t \in LBThreads :
        /\ ~LBSelectFails(t)
        /\ LBSelects(t) =>
            /\ lbLoc'[t].sel \in 1..NumUpstreams
            /\ Len(lbLoc[t].healthy) > 0 => InSeq(lbLoc'[t].sel, lbLoc[t].healthy)]_vars

C8_Witness ==
    \E t \in LBThreads :
        /\ lbPc[t] \in {"proxy", "release"}
        /\ NumUpstreams = 2
        /\ Len(lbLoc[t].healthy) = 1
        /\ lbLoc[t].sel = lbLoc[t].healthy[1]

\* C9: RecordFailure adds one to the failure count and marks the upstream
\* unhealthy when the count reaches 3; RecordSuccess sets the count to 0 and
\* marks the upstream healthy; an upstream goes from healthy to unhealthy only
\* in a RecordFailure that follows at least 3 recorded request failures with
\* no recorded success in between, or in a failed probe.
C9_Step ==
    /\ \A t \in LBThreads :
        LET j == FirstMatch(lbCfg, lbLoc[t].sel) IN
        /\ RecordFailure(t) =>
            /\ lbUp'[j].Failures = lbUp[j].Failures + 1
            /\ lbPc'[t] = (IF lbUp'[j].Failures >= 3 THEN "rf2" ELSE "release")
            /\ lbUp'[j].Healthy = lbUp[j].Healthy
        /\ RecordFailureMark(t) => ~lbUp'[j].Healthy
        /\ RecordSuccess(t) => lbUp'[j].Failures = 0 /\ lbPc'[t] = "rs2"
        /\ RecordSuccessMark(t) => lbUp'[j].Healthy /\ lbUp'[j].Failures = 0
    /\ \A k \in 1..NumUpstreams :
        (lbUp[k].Healthy /\ ~lbUp'[k].Healthy) =>
            \/ markUnhealthy(k)
            \/ /\ lbObs[k] >= 3
               /\ \E t \in LBThreads :
                    RecordFailureMark(t) /\ FirstMatch(lbCfg, lbLoc[t].sel) = k

C9_HealthTransitions == [][C9_Step]_vars

C9_Witness ==
    \E k \in 1..NumUpstreams, t \in LBThreads :
        /\ lbPc[t] = "release"
        /\ FirstMatch(lbCfg, lbLoc[t].sel) = k
        /\ lbObs[k] = 3
        /\ lbUp[k].Failures = 3
        /\ ~lbUp[k].Healthy

(***************************************************************************)
(* Pipeline claims, checked under SpecPipe.                                *)
(***************************************************************************)
\* C3: every request gets exactly one terminal response: no path calls
\* WriteHeader on the client's writer more than once, and none returns
\* without having called it, upstream errors, gRPC stream errors and
\* recovered panics included.
C3_ExactlyOneStatusWrite ==
    /\ pipeW.writes <= 1
    /\ (pipePc = "idle" /\ pipeCount > 0) => pipeW.writes = 1

LayerRank(layer) ==
    CASE layer = "Auth" -> 1
      [] layer = "RateLimit" -> 2
      [] layer = "CircuitBreaker" -> 3
      [] layer = "Cache" -> 4
      [] layer = "Transform" -> 5
      [] layer = "Forwarder" -> 6
      [] OTHER -> 0

\* C10: a request passes the layers in the order AuthZ, RateLimit,
\* CircuitBreaker, Cache, Transform, ProtocolForwarder, and a layer that
\* answers keeps the request from every layer inside it: a 401 or 403 takes no
\* rate-limit token, a 429 is not seen by the circuit breaker, and the 503 of
\* an open breaker does no cache lookup and no upstream call.
C10_LayerOrder ==
    /\ \A i, j \in 1..Len(pipeTrace) :
        i < j => LayerRank(pipeTrace[i]) < LayerRank(pipeTrace[j])
    /\ \A i \in 1..Len(pipeTrace) : LayerRank(pipeTrace[i]) > 0
    /\ LayerRank(pipeW.by) > 0 => pipeTrace[Len(pipeTrace)] = pipeW.by
    /\ pipeW.by = "Auth" =>
        /\ pipeW.status \in {401, 403}
        /\ pipeUse.limiterCalls = 0 /\ pipeUse.tokens = 0
    /\ pipeW.by = "RateLimit" =>
        /\ pipeW.status = 429
        /\ pipeUse.breakerCalls = 0 /\ pipeUse.recorded = 0
    /\ pipeW.by = "CircuitBreaker" =>
        /\ pipeW.status = 503
        /\ pipeUse.cacheLookups = 0 /\ pipeUse.upstreamCalls = 0
    /\ pipeW.status \in {401, 403} => pipeW.by = "Auth"
    /\ pipeW.status = 429 => pipeW.by = "RateLimit"
    /\ pipeW.status = 503 => pipeW.by = "CircuitBreaker"

C10_Witness ==
    /\ pipePc = "idle"
    /\ pipeCfg.auth = "required" /\ pipeCfg.rateLimit # "off" /\ pipeCfg.cache
    /\ pipeW.status = 503
    /\ pipeUse.tokens = 1
    /\ pipeTrace = <<"Auth", "RateLimit", "CircuitBreaker">>

(***************************************************************************)
(* Claims about the response cache, checked under SpecPipe.                *)
(***************************************************************************)
\* The request enters Cache.Middleware with a fresh entry under its key.
CacheHolds ==
    /\ Entering("Cache")
    /\ shouldCache(pipeReq.method)
    /\ cacheStore[generateKey(pipeReq)] >= 0
    /\ now - cacheStore[generateKey(pipeReq)] <= cacheCfg.ttl

C11_Step ==
    /\ (CacheHolds /\ pipeTrace' # pipeTrace) =>
        /\ pipeW'.by = "Cache" /\ pipeW'.writes = 1
        /\ pipeRest' = pipeRest /\ pipePc' = "unwind"
    /\ (Entering("Cache") /\ ~CacheHolds /\ pipeTrace' # pipeTrace) =>
        pipeW' = pipeW /\ pipePc' = "layers"

\* C11: when the cache holds a non-expired entry for the request's key, the
\* response is the stored status, the stored headers plus X-Cache: HIT and the
\* stored body, and nothing inside the cache (transform, forwarder, upstream)
\* is invoked for that request; without such an entry the request goes on.
C11_HitServesStoredResponse ==
    /\ [][C11_Step]_vars
    /\ [](pipeW.by = "Cache" =>
            LET entry == cacheEntry[generateKey(pipeReq)] IN
            /\ pipeW.status = entry.StatusCode
            /\ pipeOut.body = entry.Body
            /\ pipeOut.headers = [entry.Headers EXCEPT !["X-Cache"] = "HIT"]
            /\ pipeTrace[Len(pipeTrace)] = "Cache"
            /\ pipeUse.upstreamCalls = 0)

C11_Witness ==
    /\ pipePc = "idle"
    /\ pipeW.by = "Cache"
    /\ pipeCfg.transform
    /\ pipeOut.body = "b"
    /\ pipeOut.headers["X-Request-ID"] = "1"
    /\ pipeOut.headers["X-Transform"] = "on"
    /\ pipeCount = 2

\* C12: a cache entry is created or overwritten only by a request whose
\* method is one of the cache's methods and whose inner response has status
\* exactly 200; any other status (502 and 503 included) and any other method
\* leave the cache as it was.
C12_Step ==
    (cacheStore' # cacheStore \/ cacheEntry' # cacheEntry) =>
        /\ pipePc = "unwind"
        /\ pipeReq.method \in {"GET", "HEAD"}
        /\ pipeW.by \in {"Forwarder", "none"}
        /\ pipeW.status \in {0, 200} /\ pipeW.last \in {0, 200}
        /\ \A k \in CacheKeys :
            k # generateKey(pipeReq) =>
                cacheStore'[k] = cacheStore[k] /\ cacheEntry'[k] = cacheEntry[k]
        /\ cacheEntry'[generateKey(pipeReq)].StatusCode = 200

C12_OnlyCacheable200Stored == [][C12_Step]_vars

C12_Witness ==
    /\ pipePc = "idle"
    /\ cacheStore["GET"] = 0 /\ now = 2
    /\ InSeq("Cache", pipeTrace)
    /\ cacheEntry["GET"].Body = "b"
    /\ pipeCount = 2
    /\ pipeReq.method = "GET"
    /\ pipeW.status = 502


\* C15: whenever forwarding to the upstream fails at transport level (dial,
\* read, write, timeout) the client receives 502 and the failure is counted by
\* the route's circuit breaker, on HTTP and gRPC routes alike.
C15_TransportFailureIs502 ==
    (pipePc = "idle" /\ pipeUse.transportFailed) =>
        /\ pipeW.status = 502
        /\ InSeq("CircuitBreaker", pipeTrace) => pipeUse.failureRecorded

\* C17: on a route whose auth is required, a request that fails
\* authentication receives 401 with WWW-Authenticate: Bearer, one that
\* authenticates but fails authorization receives 403, in both cases nothing
\* inside is invoked, and only requests that pass both reach the layers inside.
C17_AuthGate ==
    (pipeCfg.auth = "required" /\ InSeq("Auth", pipeTrace)) =>
        /\ pipeReq.cred = "none" =>
            /\ pipeW.status = 401 /\ pipeW.by = "Auth" /\ pipeW.writes = 1
            /\ pipeOut.headers["WWW-Authenticate"] = "Bearer"
        /\ pipeReq.cred = "denied" =>
            /\ pipeW.status = 403 /\ pipeW.by = "Auth" /\ pipeW.writes = 1
        /\ pipeReq.cred # "ok" =>
            /\ pipeTrace = <<"Auth">>
            /\ pipeUse = NoUse
        /\ Len(pipeTrace) > 1 => pipeReq.cred = "ok"

C17_Witness ==
    /\ pipePc = "idle"
    /\ pipeCfg.auth = "required" /\ pipeCfg.rateLimit # "off" /\ pipeCfg.cache
    /\ pipeReq.cred = "denied"
    /\ pipeW.status = 403
    /\ pipeCount = 2
    /\ cacheStore["GET"] = 0

(***************************************************************************)
(* Claims about authorization, checked under SpecAuthz.                    *)
(***************************************************************************)
\* The permission admits the request: its role is one of the context's roles
\* or its identity type is the context's, the method is one of its methods,
\* and it has no scopes or the context satisfies all of them.
PermissionAdmits(perm, method, authCtx) ==
    /\ \/ perm.Role # "" /\ \E j \in 1..Len(authCtx.Roles) : EqualFold(authCtx.Roles[j], perm.Role)
       \/ perm.IdentityType # "" /\ perm.IdentityType = authCtx.IdentityType
    /\ \E i \in 1..Len(perm.Methods) : EqualFold(perm.Methods[i], method)
    /\ perm.Scopes = <<>> \/ hasAllScopes(authCtx.Scopes, perm.Scopes)

AllowedRolesPass ==
    azIn.routeAuth.AllowedRoles = <<>>
        \/ hasAnyRole(azIn.authCtx.Roles, azIn.routeAuth.AllowedRoles)
RequiredScopesPass ==
    azIn.routeAuth.RequiredScopes = <<>>
        \/ hasAllScopes(azIn.authCtx.Scopes, azIn.routeAuth.RequiredScopes)

TechnicianEngineerMatrix ==
    <<[Role |-> "technician", IdentityType |-> "", Methods |-> <<"GET">>, Scopes |-> <<>>],
      [Role |-> "engineer", IdentityType |-> "", Methods |-> <<"GET", "POST">>, Scopes |-> <<>>]>>

C16_Step ==
    reloads' # reloads =>
        /\ pipeCfg'.circuitBreaker => cb' = NewCircuitBreaker /\ cbCfg' = routeCB'
        /\ pipeCfg'.cache =>
            /\ \A k \in CacheKeys : cacheStore'[k] = -1
            /\ cacheCfg'.ttl = pipeCfg'.ttl

C16_ReloadStartsFresh == [][C16_Step]_vars

(***************************************************************************)
(* Claims about the rate limiters, checked under SpecRL.                   *)
(***************************************************************************)
RECURSIVE AdmittedBetween(_, _, _, _)
AdmittedBetween(s, k, t1, t2) ==
    IF t1 > t2 THEN 0 ELSE rlAdmitted[s][k][t1] + AdmittedBetween(s, k, t1 + 1, t2)

\* Every scope is configured with the same rate and burst.
RLOneConfig == \A s1, s2 \in Scopes : rlCfg[s1] = rlCfg[s2]

\* C13: for a fixed rate-limit key with rate r and burst b, each admission
\* takes one token, a request is denied when the bucket is empty and the
\* refill is elapsed * r capped at b; hence the requests admitted for the key
\* in any interval of length T never number more than b + r * T.
C13_AdmissionsBounded ==
    RLOneConfig =>
        \A s \in Scopes, k \in ClientKeys, t1, t2 \in 0..MaxTime :
            t1 <= t2 =>
                AdmittedBetween(s, k, t1, t2) <= rlCfg[s].burst + rlCfg[s].rps * (t2 - t1)

\* C14: buckets are keyed by (scope, key): for one client key the bucket of a
\* route is independent of the global bucket, so a request is denied under a
\* scope only after that scope admitted requests of the key itself, and the
\* limiter a request is checked against has the rate and burst of the
\* request's own scope.
C14_BucketsPerScope ==
    /\ \A s \in Scopes, k \in ClientKeys :
        rlDenied[s][k] > 0 => AdmittedBetween(s, k, 0, MaxTime) >= rlCfg[s].burst
    /\ \A t \in Threads :
        rlPc[t] = "allow" =>
            /\ rlHeap[rlLoc[t].ref].rps = rlCfg[rlLoc[t].scope].rps
            /\ rlHeap[rlLoc[t].ref].burst = rlCfg[rlLoc[t].scope].burst

\* C31: under concurrent first requests for one rate-limit key getLimiter
\* never hands out two different limiters for the key, so the requests
\* admitted for the key at one instant (no refill) never number more than
\* the burst.
C31_OneLimiterPerKey ==
    /\ \A t1, t2 \in Threads :
        (rlPc[t1] = "allow" /\ rlPc[t2] = "allow" /\ rlLoc[t1].key = rlLoc[t2].key)
            => rlLoc[t1].ref = rlLoc[t2].ref
    /\ RLOneConfig =>
        \A k \in ClientKeys, u \in 0..MaxTime :
            rlAdmitted["global"][k][u] + rlAdmitted["route"][k][u] <= rlCfg["global"].burst

(***************************************************************************)
(* Claims about the dispatcher, checked under SpecRoute.                   *)
(***************************************************************************)
\* The declared route matches the request's path.
RouteMatches(route, req) ==
    /\ route.methods = {} \/ req.method \in route.methods
    /\ IF route.pattern.class = "exact"
       THEN req.path.segs = route.pattern.segs
       ELSE /\ IsPrefix(route.pattern.segs, req.path.segs)
            /\ \/ Len(req.path.segs) > Len(route.pattern.segs)
               \/ req.path.slash
               \/ route.pattern.segs = <<>>

\* Route a is more specific than route b: exact before prefix and wildcard,
\* a longer prefix before a shorter one.
MoreSpecific(a, b) ==
    \/ a.pattern.class = "exact" /\ b.pattern.class # "exact"
    \/ /\ a.pattern.class # "exact" /\ b.pattern.class # "exact"
       /\ Len(a.pattern.segs) > Len(b.pattern.segs)

InternalRequests ==
    {[path |-> [segs |-> <<"_gonk", "health">>, slash |-> FALSE], method |-> "GET"],
     [path |-> [segs |-> <<"_gonk", "cache", "clear">>, slash |-> FALSE], method |-> "POST"],
     [path |-> [segs |-> <<"metrics">>, slash |-> FALSE], method |-> "GET"]}

\* C19: when several route patterns match a request path, the request goes to
\* the most specific one whatever the declaration order: exact before prefix
\* or wildcard, a longer prefix before a shorter one; declaration order breaks
\* ties between equally specific patterns only.
C19_MostSpecificRoute ==
    (rtOut.status # 0 /\ rtReq \notin InternalRequests
     /\ \E i \in 1..Len(rtRoutes) : RouteMatches(rtRoutes[i], rtReq)) =>
        /\ rtOut.route \in 1..Len(rtRoutes)
        /\ RouteMatches(rtRoutes[rtOut.route], rtReq)
        /\ \A i \in 1..Len(rtRoutes) :
            RouteMatches(rtRoutes[i], rtReq) =>
                /\ ~MoreSpecific(rtRoutes[i], rtRoutes[rtOut.route])
                /\ MoreSpecific(rtRoutes[rtOut.route], rtRoutes[i]) \/ rtOut.route <= i

\* C20: requests to the internal endpoints (/_gonk/health, /_gonk/cache/clear,
\* the metrics path, ...) are served by the internal handlers whatever user
\* routes are configured, a catch-all /* included, and never enter a user
\* route's pipeline.
C20_InternalEndpointsFirst ==
    (rtOut.status # 0 /\ rtReq \in InternalRequests) =>
        /\ rtOut.route = 0
        /\ rtOut.status = 200
        /\ rtOut.name \in {"HealthHandler", "clearCacheHandler", "metrics.Handler"}


(***************************************************************************)
(* Claims about the health-check tasks, checked under SpecLife.            *)
(***************************************************************************)
Retired(k) == k <= Len(lifeLBs) /\ (~lifeLBs[k].current \/ lifeSrv # "running")
TaskEnded(k) == k <= Len(lifeLBs) /\ lifeLBs[k].loop \in {"exited", "killed"}

\* C21: after the gateway shuts down, and after a reload retires a pipeline,
\* the health-check task of each affected load balancer gets its stop signal
\* and eventually exits, so that no further probes are issued for it.
C21_RetiredTasksExit == \A k \in 1..MaxLBs : [](Retired(k) => <>TaskEnded(k))

(***************************************************************************)
(* Claims about the WebSocket proxy, checked under SpecWS.                 *)
(***************************************************************************)
WSSideEnded == wsPc = "wait" /\ \E side \in Sides : wsConn[side] = "peerClosed"
WSAllEnded ==
    /\ \A p \in Pumps : wsPump[p] = "done"
    /\ \A side \in Sides : wsConn[side] = "closed"

\* C22: in a proxied WebSocket session, once the client side or the upstream
\* side closes or errors, both pumps eventually terminate and both
\* connections are closed; no pump stays blocked on a read, a write or errChan.
C22_BothPumpsTerminate == WSSideEnded ~> WSAllEnded

\* A session in which the upstream closed while the client stayed connected:
\* both pumps have returned and both connections are closed.
C22_Witness ==
    /\ wsStatus = 101
    /\ wsPc = "done"
    /\ WSAllEnded
    /\ wsErrChan = <<"netError">>
    /\ wsLogged = FALSE

(***************************************************************************)
(* Claims about scope matching, checked under SpecScopes.                  *)
(***************************************************************************)
\* The wildcard scope prefix:* covers the scopes prefix:anything; the prefix
\* is a beginning of the wildcard and anything is an end of the scope.
WildcardCovers(wildcard, scope) ==
    \E k \in 0..Len(wildcard), n \in 0..Len(scope) :
        LET prefix == SubSeq(wildcard, 1, k)
            anything == SubSeq(scope, n + 1, Len(scope))
        IN  /\ wildcard = prefix \o <<":", "*">>
            /\ scope = prefix \o <<":">> \o anything

ScopeMatches(a, b) == a = b \/ WildcardCovers(a, b) \/ WildcardCovers(b, a)

StartsWith(scope, name) == Len(scope) >= 2 /\ scope[1] = name /\ scope[2] = ":"

C24_OnlyHS256Accepted ==
    jwtOut.called =>
        /\ jwtOut.authenticated => (jwtIn.alg = "HS256" /\ jwtIn.signedWith = "shared")
        /\ jwtIn.alg # "HS256" => jwtOut.status = 401

(***************************************************************************)
(* Claims about the header transforms, checked under SpecTransform.        *)
(***************************************************************************)
\* C25: transforms are idempotent: applying the request transform (or the
\* response transform) again to the header set the first application
\* produced leaves it unchanged, for every add/remove rule, added values
\* with variable substitution included.
C25_TransformIdempotent ==
    Len(trHist) = 3 => trHist[3] = trHist[2]

(***************************************************************************)
(* Claims about the gRPC frames, checked under SpecFrames.                 *)
(***************************************************************************)
\* A valid frame: flag 0, a length not above 16 MiB, and exactly that many
\* bytes of payload.
ValidFrame(f) ==
    /\ Len(f) >= 5
    /\ f[1] = 0
    /\ Uint32(SubSeq(f, 2, 5)) <= MaxMessageLength
    /\ Len(f) = 5 + Uint32(SubSeq(f, 2, 5))

\* C26: for every valid gRPC frame f, decoding f with readGRPCFrame and
\* encoding the result with writeGRPCFrame reproduces f byte for byte.
C26_FrameRoundTrip ==
    (frOut.called /\ ValidFrame(frIn)) =>
        /\ frOut.err = "none"
        /\ frOut.written = frIn

\* A valid frame with a payload of two bytes has been copied.
C26_Witness ==
    /\ frOut.called
    /\ ValidFrame(frIn)
    /\ Len(frIn) = 7
    /\ frOut.written = frIn

PickedInLast(n, i) ==
    Cardinality({j \in (Len(selHist) - n + 1)..Len(selHist) : selHist[j] = selHealthy[i]})

\* C27: with strategy round-robin, a stable healthy list of N upstreams and
\* the cursor starting at 0, the k-th selection (k = 0, 1, 2, ...) returns
\* healthy[k mod N], so the first selection returns the first healthy
\* upstream.
C27_KthIsKModN ==
    selCfg.strategy = "round-robin" =>
        \A k \in 1..Len(selHist) :
            selHist[k] = selHealthy[((k - 1) % Len(selHealthy)) + 1]

\* C27 as the code has it: the k-th selection (k = 0, 1, 2, ...) returns
\* healthy[(k + 1) mod N], so with two or more healthy upstreams the first
\* selection returns the second of them; any N consecutive selections pick
\* every healthy upstream exactly once.
C27_KthIsSuccessorModN ==
    selCfg.strategy = "round-robin" =>
        /\ \A k \in 1..Len(selHist) :
              selHist[k] = selHealthy[(k % Len(selHealthy)) + 1]
        /\ Len(selHist) >= Len(selHealthy) =>
              \A i \in 1..Len(selHealthy) : PickedInLast(Len(selHealthy), i) = 1

C27_Witness ==
    /\ selCfg.strategy = "round-robin"
    /\ Len(selHealthy) >= 2
    /\ Len(selHist) > Len(selHealthy)

HitReturns ==
    /\ pipePc = "unwind" /\ pipePc' = "idle"
    /\ pipeW.by = "Cache"
    /\ InSeq("CircuitBreaker", pipeTrace)

\* C34: a response served from the cache is observed by the enclosing circuit
\* breaker as a success although no upstream was contacted: it resets the
\* failure count in Closed and counts toward half_open_max_reqs in HalfOpen,
\* closing the breaker when that number is reached.
C34_Step ==
    HitReturns =>
        /\ pipeUse.upstreamCalls = 0
        /\ pipeW.last = 200
        /\ cb.state = StateClosed => (cb'.state = StateClosed /\ cb'.failures = 0)
        /\ cb.state = StateHalfOpen =>
              /\ cb'.successCount = cb.successCount + 1
              /\ cb'.state = IF cb.successCount + 1 >= cbCfg.halfOpenMaxReqs
                             THEN StateClosed ELSE StateHalfOpen

C34_HitCountsAsSuccess == [][C34_Step]_vars

\* The breaker had opened and is HalfOpen; the request it admitted was
\* answered from the cache without an upstream call, and the success about
\* to be recorded for it closes the breaker.
C34_Witness ==
    /\ pipePc = "unwind"
    /\ pipeW.by = "Cache"
    /\ pipeUse.upstreamCalls = 0
    /\ InSeq("CircuitBreaker", pipeTrace)
    /\ cb.state = StateHalfOpen
    /\ cb.failures > 0
    /\ cb.successCount + 1 >= cbCfg.halfOpenMaxReqs

(***************************************************************************)
(* Claims about the outcomes the circuit breaker records, checked under    *)
(* SpecPipe.                                                               *)
(***************************************************************************)
\* The request entered CircuitBreaker.Middleware and was passed on to the
\* handler inside it.
AdmittedByBreaker ==
    /\ InSeq("CircuitBreaker", pipeTrace)
    /\ pipeTrace[Len(pipeTrace)] # "CircuitBreaker"

\* C35: every request admitted by the circuit breaker results in exactly one
\* recorded outcome, recorded when the inner pipeline returns, whatever way
\* the inner pipeline ends (normal response, upstream error or panic).
C35_OneOutcomePerAdmission ==
    (pipePc = "idle" /\ pipeCount > 0 /\ AdmittedByBreaker) => pipeUse.recorded = 1

(***************************************************************************)
(* Claims about the log of health transitions, checked under SpecHealth.   *)
(***************************************************************************)
\* C36: each healthy-to-unhealthy and each unhealthy-to-healthy transition of
\* an upstream produces exactly one transition log event, and no transition
\* log event is emitted by a request outcome or a probe that leaves the
\* upstream's health flag unchanged.
C36_Step ==
    \A k \in 1..NumUpstreams :
        IF lbUp'[k].Healthy # lbUp[k].Healthy
        THEN lgEvent' = [upstream |-> k,
                         to |-> IF lbUp'[k].Healthy THEN "healthy" ELSE "unhealthy"]
        ELSE lgEvent'.upstream # k

C36_TransitionsLoggedOnEdges == [][C36_Step]_vars

(***************************************************************************)
(* Claims about the rate-limit key, checked under SpecKeys.                *)
(***************************************************************************)
\* C38: the rate-limit key is determined by the request's identity only: with
\* by = client_id it is the authenticated client identifier, so two requests
\* authenticated as the same client share one bucket whatever other headers
\* or source port they carry; with by = ip it is the peer IP address.
C38_KeyByIdentityOnly ==
    kyOut # <<>> =>
        \A i, j \in 1..2 :
            /\ kyIn.by = "client_id" =>
                  /\ kyOut[i] = <<kyIn.reqs[i].client>>
                  /\ kyIn.reqs[i].client = kyIn.reqs[j].client => kyOut[i] = kyOut[j]
            /\ kyIn.by = "ip" =>
                  /\ kyOut[i] = <<kyIn.reqs[i].host>>
                  /\ kyIn.reqs[i].host = kyIn.reqs[j].host => kyOut[i] = kyOut[j]

(***************************************************************************)
(* Claims about the mutexes, checked under SpecLocks.                      *)
(***************************************************************************)
lkHolds(t, m) == t \in lkReaders[m] \/ lkWriter[m] = t \/ lkPending[m] = t

\* the goroutine's next lock call can be made now
lkCanStep(t) ==
    \/ lkProg[t] # <<>> /\ lkPc[t] > Len(lkProg[t])
    \/ lkAt(t, "RUnlock") \/ lkAt(t, "Unlock")
    \/ lkAt(t, "RLock") /\ lkWriter[lkNext(t).mutex] = 0 /\ lkPending[lkNext(t).mutex] = 0
    \/ lkAt(t, "Lock") /\ lkPending[lkNext(t).mutex] = t /\ lkReaders[lkNext(t).mutex] = {}
    \/ lkAt(t, "Lock") /\ lkPending[lkNext(t).mutex] = 0 /\ lkWriter[lkNext(t).mutex] = 0

\* C39: no interleaving of the load balancer's and the circuit breaker's
\* operations deadlocks: whenever operations are under way one of them can
\* take its next step; no goroutine that holds an upstream's mutex asks for
\* the load balancer's; and an operation that returned holds no mutex.
C39_NoDeadlock ==
    /\ (\E t \in LockThreads : lkProg[t] # <<>>)
           => \E t \in LockThreads : lkProg[t] # <<>> /\ lkCanStep(t)
    /\ \A t \in LockThreads :
           (\E k \in 1..MaxUpstreams : lkHolds(t, upstreamMutex(k)))
               => ~(lkRunning(t) /\ lkNext(t).op \in {"RLock", "Lock"}
                        /\ lkNext(t).mutex = lbMutex)
    /\ \A t \in LockThreads : lkProg[t] = <<>> => \A m \in Mutexes : ~lkHolds(t, m)

\* a canExecute between its RUnlock and its Lock waits for a reader to leave
\* while a third goroutine holds an upstream's mutex under the load
\* balancer's.
C39_Witness ==
    /\ \E t \in LockThreads :
           /\ lkProg[t] = canExecuteLocks(TRUE)
           /\ lkPending[cbMutex] = t
           /\ lkReaders[cbMutex] # {}
    /\ \E t \in LockThreads, k \in 1..MaxUpstreams :
           /\ lkWriter[lbMutex] = t
           /\ lkWriter[upstreamMutex(k)] = t

(***************************************************************************)
(* Claims about the handler's forwarders, checked under SpecFwd.           *)
(***************************************************************************)
\* C40: for every route for which NewHandler succeeds, whatever its protocol
\* and number of upstreams, ServeHTTP hands each request to a forwarder that
\* was built for the route: the gRPC proxy, load balancer or HTTP proxy it
\* uses is never nil.
C40_ForwarderNeverNil == ~fwUse.nil

====
